---- MODULE Spec2Model ----
(***************************************************************************)
(* The clip filter of the mp4 package (src/unnamed/part_001), the sample   *)
(* table helpers and box sizes it uses (src/box.go), the filter pipeline   *)
(* EncodeFiltered (src/filter/filter.go), and the decoder: Decode and      *)
(* MP4.Encode (src/mp4.go) over the box decoders and encoders              *)
(* (src/box.go).                                                           *)
(*                                                                         *)
(* Conventions                                                             *)
(*  - Go slices are sequences; Go index k is index k+1 here.               *)
(*  - A nil box pointer is a record with present = FALSE.                  *)
(*  - time.Duration (int64 nanoseconds) does not fit the integers of the   *)
(*    model checker, so a duration is the record [s, n] standing for       *)
(*    s * Second + n nanoseconds with 0 <= n < Second.  The operators      *)
(*    below compute the Go expressions exactly (floor to the nanosecond).  *)
(*  - uint32 values are kept as integers; a value that wrapped below zero  *)
(*    is kept as the negative number congruent to it modulo 2^32, and      *)
(*    unsigned comparisons go through ULe / UGe.                           *)
(*  - A Go run-time panic (index out of range) is an outcome of its own:   *)
(*    the operators carry a panic flag and the caller's pc ends "panic".   *)
(***************************************************************************)
EXTENDS Integers, Sequences, FiniteSets, TLC

VARIABLES
    ftyp,    \* the decoded FtypBox (never changes)
    moov,    \* the decoded MoovBox tree, mutated in place by FilterMoov
    orig,    \* the MoovBox as it was decoded (never changes)
    f,       \* the clipFilter object
    mdat,    \* the MdatBox: ContentSize and the reader's position
    sink,    \* what has been written to the io.Writer, in order
    pc,      \* where the caller of the filter is
    ret,     \* the value the last call returned
    mode,    \* "pipeline": EncodeFiltered drives; "direct": a client calls the
             \* filter; "copy": a client encodes the decoded MdatBox
    build,   \* the ioutil.ReadAll the program is built with
    trace,   \* the calls made so far, with their results
    stream,  \* the file given to Decode, as 4-byte words
    rpos,    \* the position of Decode's reader in the file, in bytes
    mp4,     \* the boxes Decode has decoded: the MP4 it returns
    out,     \* what MP4.Encode has written
    boxlog   \* the box headers decoded so far

vars == <<ftyp, moov, orig, f, mdat, sink, pc, ret, mode, build, trace, stream, rpos, mp4, out, boxlog>>

----------------------------------------------------------------------------
(* Bounds of the model *)

MaxChunks == 2
MaxSpc == 2
MaxBegin == 2
MaxDuration == 2
MaxCalls == 2

(* Program constants *)

BoxHeaderSize == 8
Second == 1000000000
TwoTo30 == 1073741824

NoErr == "nil"
ErrClipOutside == "clip zone is outside video"
ErrTruncatedChunk == "chunk was truncted"
ErrInvalidDuration == "invalid duration"
ErrWrite == "write error"
ErrRead == "read error"
EOF == "EOF"

----------------------------------------------------------------------------
(* time.Duration arithmetic *)

Dur(s, n) == [s |-> s, n |-> n]

\* time.Duration(k) * time.Second
Seconds(k) == Dur(k, 0)

DurLT(a, b) == a.s < b.s \/ (a.s = b.s /\ a.n < b.n)
DurLE(a, b) == ~DurLT(b, a)
DurGT(a, b) == DurLT(b, a)
DurGE(a, b) == ~DurLT(a, b)

DurSub(a, b) ==
    IF a.n >= b.n THEN Dur(a.s - b.s, a.n - b.n)
                  ELSE Dur(a.s - b.s - 1, a.n + Second - b.n)

ZeroDur == Dur(0, 0)

\* time.Second * time.Duration(units) / time.Duration(timescale)
\* floor(Second * units / timescale), for units >= 0 and timescale >= 1
TicksToDur(units, timescale) ==
    LET q == Second \div timescale
        r == Second % timescale
        w == units \div timescale
        m == units % timescale
    IN  Dur(w, m * q + (m * r) \div timescale)

\* uint32(d * time.Duration(timescale) / time.Second)
\* floor(d * timescale / Second), for d >= 0 and 1 <= timescale <= 2000
DurToTicks(d, timescale) ==
    LET a == d.n \div 1000000
        b == d.n % 1000000
    IN  d.s * timescale + (a * timescale + (b * timescale) \div 1000000) \div 1000

----------------------------------------------------------------------------
(* uint32 comparisons on the representation described above *)

ULt(a, b) == IF (a < 0) = (b < 0) THEN a < b ELSE b < 0
ULe(a, b) == a = b \/ ULt(a, b)
UGe(a, b) == ~ULt(a, b)
UGt(a, b) == ULt(b, a)

RECURSIVE SumSeq(_)
SumSeq(s) == IF s = <<>> THEN 0 ELSE Head(s) + SumSeq(Tail(s))

----------------------------------------------------------------------------
(* Box sizes, src/box.go *)

SttsSize(b) == BoxHeaderSize + 8 + Len(b.SampleCount) * 8
StssSize(b) == BoxHeaderSize + 8 + Len(b.SampleNumber) * 4
StscSize(b) == BoxHeaderSize + 8 + Len(b.FirstChunk) * 12
StszSize(b) == BoxHeaderSize + 12 + Len(b.SampleSize) * 4
StcoSize(b) == BoxHeaderSize + 8 + Len(b.ChunkOffset) * 4
CttsSize(b) == BoxHeaderSize + 8 + Len(b.SampleCount) * 8
TkhdSize == BoxHeaderSize + 84
MdhdSize == BoxHeaderSize + 24

\* t.StsdSize is Stsd.Size() = BoxHeaderSize + 4 + len(notDecoded)
StblSize(t) ==
    t.StsdSize + SttsSize(t.Stts)
    + (IF t.Stss.present THEN StssSize(t.Stss) ELSE 0)
    + StscSize(t.Stsc) + StszSize(t.Stsz) + StcoSize(t.Stco)
    + (IF t.Ctts.present THEN CttsSize(t.Ctts) ELSE 0)
    + BoxHeaderSize

\* t.MinfOther is the sizes of the Vmhd/Smhd, Dinf and Hdlr children that are present,
\* t.MhdSize of them the Vmhd's or the Smhd's
MinfSize(t) == t.MinfOther + StblSize(t) + BoxHeaderSize

\* t.HdlrSize is Hdlr.Size() of the mdia's handler box
MdiaSize(t) == MdhdSize + t.HdlrSize + MinfSize(t) + BoxHeaderSize

\* t.EdtsSize is Edts.Size(), 0 when Edts is nil
TrakSize(t) == TkhdSize + MdiaSize(t) + t.EdtsSize + BoxHeaderSize

RECURSIVE SumTrakSize(_)
SumTrakSize(traks) ==
    IF traks = <<>> THEN 0 ELSE TrakSize(Head(traks)) + SumTrakSize(Tail(traks))

\* m.Mvhd.Extra is len(Mvhd.notDecoded); m.Other the sizes of Iods and Udta when present
MvhdSize(b) == BoxHeaderSize + 26 + b.Extra
MoovSize(m) == MvhdSize(m.Mvhd) + m.Other + SumTrakSize(m.Trak) + BoxHeaderSize

FtypSize(b) == BoxHeaderSize + 8 + 4 * b.CompatibleBrands

\* Variant: the payload alone, without the header
MdatSizeOfPayload(b) == b.ContentSize

\* MdatBox.Size
MdatSize(b) == BoxHeaderSize + b.ContentSize

----------------------------------------------------------------------------
(* SttsBox.GetTimeCode and StszBox.GetSampleSize, src/box.go *)

\* a - b in uint32, for a >= b as unsigned numbers
USub(a, b) ==
    IF a < 0 /\ b > 0 /\ a < (b - TwoTo30) - TwoTo30
    THEN (a + TwoTo30 + TwoTo30) + (TwoTo30 - b + TwoTo30)
    ELSE a - b

\* The loop of GetTimeCode from entry i on, with sample the uint32 left to pass:
\* the ticks added up when it ends, or a panic when it indexes past the table.
RECURSIVE TimeUnits(_, _, _, _)
TimeUnits(b, sample, i, units) ==
    IF sample = 0 THEN [panic |-> FALSE, units |-> units]
    ELSE IF i > Len(b.SampleCount) \/ i > Len(b.SampleTimeDelta)
         THEN [panic |-> TRUE, units |-> units]
    ELSE IF UGe(sample, b.SampleCount[i])
         THEN TimeUnits(b, USub(sample, b.SampleCount[i]), i + 1,
                        units + b.SampleCount[i] * b.SampleTimeDelta[i])
         ELSE TimeUnits(b, 0, i + 1, units + sample * b.SampleTimeDelta[i])

\* "sample--" takes sample 0 to 2^32-1; the division by timescale panics at 0
GetTimeCodePanics(b, sample, timescale) ==
    TimeUnits(b, sample - 1, 1, 0).panic \/ timescale = 0

\* the value returned when GetTimeCode does not panic, for units below 2^31
GetTimeCode(b, sample, timescale) ==
    TicksToDur(TimeUnits(b, sample - 1, 1, 0).units, timescale)

\* i is the Go argument; SampleSize[i-1] in Go is SampleSize[i] here
GetSampleSizePanics(b, i) == ~(i > Len(b.SampleSize)) /\ i - 1 < 0

GetSampleSize(b, i) ==
    IF i > Len(b.SampleSize) THEN b.SampleUniformSize ELSE b.SampleSize[i]

----------------------------------------------------------------------------
(* The chunk list, src/unnamed/part_001 lines 17-72 *)

\* chunk.size
size(c) == SumSeq(c.samples)

\* mdat.firstSample
RECURSIVE firstSample(_, _, _)
firstSample(m, tnum, timecode) ==
    IF m = <<>> THEN 0
    ELSE LET c == Head(m)
         IN  IF c.track = tnum /\ DurGE(timecode, c.firstTC) /\ DurLE(timecode, c.lastTC)
             THEN c.firstSample
             ELSE firstSample(Tail(m), tnum, timecode)

\* mdat.lastSample
RECURSIVE lastSample(_, _, _)
lastSample(m, tnum, timecode) ==
    IF m = <<>> THEN 0
    ELSE LET c == Head(m)
         IN  IF c.track = tnum /\ DurGE(timecode, c.firstTC) /\ DurLE(timecode, c.lastTC)
             THEN c.lastSample
             ELSE lastSample(Tail(m), tnum, timecode)

\* The loop of buildChunkList over stco.ChunkOffset.  i is chunk.index (Go's i+1),
\* sci and ssi are the Go variables, acc the chunks appended so far for this track.
\* The result is the chunks appended and whether the loop panicked (the chunk being
\* built when it panics is not appended).
RECURSIVE buildChunkLoop(_, _, _, _, _, _)
buildChunkLoop(tnum, t, i, sci, ssi, acc) ==
    IF i > Len(t.Stco.ChunkOffset) THEN [panic |-> FALSE, chunks |-> acc]
    ELSE
      LET stsc == t.Stsc
          sci2 == IF sci < Len(stsc.FirstChunk) - 1 /\ i >= stsc.FirstChunk[sci + 2]
                  THEN sci + 1 ELSE sci
          n == stsc.SamplesPerChunk[sci2 + 1]
          ssi2 == ssi + n
          panics ==
              \/ GetTimeCodePanics(t.Stts, ssi + 1, t.Mdhd.Timescale)
              \/ sci2 + 1 > Len(stsc.SampleDescriptionID)
              \/ sci2 + 1 > Len(stsc.SamplesPerChunk)
              \/ \E k \in 0 .. (n - 1) : GetSampleSizePanics(t.Stsz, ssi + k)
              \/ GetTimeCodePanics(t.Stts, ssi2 + 1, t.Mdhd.Timescale)
          c == [ track         |-> tnum,
                 index         |-> i,
                 oldOffset     |-> t.Stco.ChunkOffset[i],
                 samples       |-> [k \in 1 .. n |-> GetSampleSize(t.Stsz, ssi + k - 1)],
                 firstSample   |-> ssi + 1,
                 firstTC       |-> GetTimeCode(t.Stts, ssi + 1, t.Mdhd.Timescale),
                 descriptionID |-> stsc.SampleDescriptionID[sci2 + 1],
                 lastSample    |-> ssi2 + 1,
                 lastTC        |-> GetTimeCode(t.Stts, ssi2 + 1, t.Mdhd.Timescale),
                 skip          |-> FALSE ]
      IN  IF panics THEN [panic |-> TRUE, chunks |-> acc]
          ELSE buildChunkLoop(tnum, t, i + 1, sci2, ssi2, Append(acc, c))

\* clipFilter.buildChunkList
buildChunkList(tnum, t) == buildChunkLoop(tnum, t, 1, 0, 0, <<>>)

----------------------------------------------------------------------------
(* clipFilter.updateSamples, lines 155-227 *)

\* The run-length loop of lines 165-179 (stts) and 209-224 (ctts): the new counts
\* and the new values.  acc is a sequence of <<count, value>> pairs.
RECURSIVE clipRuns(_, _, _, _, _, _, _)
clipRuns(oldCount, oldValue, first, last, i, sample, acc) ==
    IF ~(i <= Len(oldCount) /\ sample < last) THEN acc
    ELSE
      LET c == oldCount[i]
          c1 == IF sample < first /\ sample + c > first THEN c + (sample - first) ELSE c
          c2 == IF sample + c > last THEN c1 + (last - sample - c) ELSE c1
      IN  clipRuns(oldCount, oldValue, first, last, i + 1, sample + c,
                   IF sample + c >= first THEN Append(acc, <<c2, oldValue[i]>>) ELSE acc)

Firsts(pairs) == [k \in 1 .. Len(pairs) |-> pairs[k][1]]
Seconds2(pairs) == [k \in 1 .. Len(pairs) |-> pairs[k][2]]

updateStts(stts, first, last) ==
    LET runs == clipRuns(stts.SampleCount, stts.SampleTimeDelta, first, last, 1, 0, <<>>)
    IN  [SampleCount |-> Firsts(runs), SampleTimeDelta |-> Seconds2(runs)]

\* lines 182-192
RECURSIVE stssLoop(_, _, _)
stssLoop(oldNumber, first, last) ==
    IF oldNumber = <<>> THEN <<>>
    ELSE LET n == Head(oldNumber)
             rest == stssLoop(Tail(oldNumber), first, last)
         IN  IF n >= first /\ n <= last THEN <<n - first>> \o rest ELSE rest

updateStss(stss, first, last) ==
    IF stss.present
    THEN [present |-> TRUE, SampleNumber |-> stssLoop(stss.SampleNumber, first, last)]
    ELSE stss

\* lines 194-202; n is the Go index of the entry, first-1 and last-1 are uint32
RECURSIVE stszLoop(_, _, _, _)
stszLoop(oldSize, first, last, n) ==
    IF n >= Len(oldSize) THEN <<>>
    ELSE LET rest == stszLoop(oldSize, first, last, n + 1)
         IN  IF UGe(n, first - 1) /\ ULe(n, last - 1)
             THEN <<oldSize[n + 1]>> \o rest ELSE rest

updateStsz(stsz, first, last) ==
    [stsz EXCEPT !.SampleSize = stszLoop(stsz.SampleSize, first, last, 0)]

\* lines 204-225
updateCtts(ctts, first, last) ==
    IF ctts.present
    THEN LET runs == clipRuns(ctts.SampleCount, ctts.SampleOffset, first, last, 1, 0, <<>>)
         IN  [present |-> TRUE, SampleCount |-> Firsts(runs), SampleOffset |-> Seconds2(runs)]
    ELSE ctts

\* The track t after updateSamples(tnum, t), for the filter's chunks, begin and end
updateSamples(chunks, begin, end, tnum, t) ==
    LET first == firstSample(chunks, tnum, begin)
        last == lastSample(chunks, tnum, end)
    IN  [t EXCEPT !.Stts = updateStts(t.Stts, first, last),
                  !.Stss = updateStss(t.Stss, first, last),
                  !.Stsz = updateStsz(t.Stsz, first, last),
                  !.Ctts = updateCtts(t.Ctts, first, last)]

----------------------------------------------------------------------------
(* clipFilter.updateChunks, lines 229-258 *)

\* The loop skipping also the chunks that only touch begin or end
RECURSIVE chunksLoopSkipTouching(_, _, _, _, _, _, _, _, _)
chunksLoopSkipTouching(chunks, begin, end, tnum, k, index, hasFc, fc, runs) ==
    IF k > Len(chunks) THEN [chunks |-> chunks, index |-> index, runs |-> runs]
    ELSE
      LET c == chunks[k]
      IN  IF c.track # tnum
          THEN chunksLoopSkipTouching(chunks, begin, end, tnum, k + 1, index, hasFc, fc, runs)
          ELSE IF DurGE(c.firstTC, end) \/ DurLE(c.lastTC, begin)
          THEN chunksLoopSkipTouching([chunks EXCEPT ![k].skip = TRUE], begin, end, tnum,
                                      k + 1, index, hasFc, fc, runs)
          ELSE
            LET index2 == index + 1
                fc1 == IF hasFc THEN fc ELSE c
                emit == \/ index2 = 1
                        \/ Len(c.samples) # Len(fc1.samples)
                        \/ c.descriptionID # fc1.descriptionID
            IN  chunksLoopSkipTouching(chunks, begin, end, tnum, k + 1, index2, TRUE,
                                       IF emit THEN c ELSE fc1,
                                       IF emit
                                       THEN Append(runs, <<index2, Len(fc1.samples), fc1.descriptionID>>)
                                       ELSE runs)

\* The loop over f.chunks.  k walks the list, index is the Go variable, fc the
\* chunk firstChunk points to (hasFc = FALSE while it is nil), runs the stsc
\* entries appended so far as <<FirstChunk, SamplesPerChunk, SampleDescriptionID>>.
RECURSIVE chunksLoop(_, _, _, _, _, _, _, _, _)
chunksLoop(chunks, begin, end, tnum, k, index, hasFc, fc, runs) ==
    IF k > Len(chunks) THEN [chunks |-> chunks, index |-> index, runs |-> runs]
    ELSE
      LET c == chunks[k]
      IN  IF c.track # tnum
          THEN chunksLoop(chunks, begin, end, tnum, k + 1, index, hasFc, fc, runs)
          ELSE IF DurGT(c.firstTC, end) \/ DurLT(c.lastTC, begin)
          THEN chunksLoop([chunks EXCEPT ![k].skip = TRUE], begin, end, tnum,
                          k + 1, index, hasFc, fc, runs)
          ELSE
            LET index2 == index + 1
                fc1 == IF hasFc THEN fc ELSE c
                emit == \/ index2 = 1
                        \/ Len(c.samples) # Len(fc1.samples)
                        \/ c.descriptionID # fc1.descriptionID
            IN  chunksLoop(chunks, begin, end, tnum, k + 1, index2, TRUE,
                           IF emit THEN c ELSE fc1,
                           IF emit
                           THEN Append(runs, <<index2, Len(fc1.samples), fc1.descriptionID>>)
                           ELSE runs)

Thirds(triples) == [k \in 1 .. Len(triples) |-> triples[k][3]]

\* The chunks (skip flags set) and the track after updateChunks(tnum, t)
updateChunks(chunks, begin, end, tnum, t) ==
    LET r == chunksLoop(chunks, begin, end, tnum, 1, 0, FALSE, <<>>, <<>>)
    IN  [chunks |-> r.chunks,
         trak   |-> [t EXCEPT
                      !.Stsc = [FirstChunk          |-> Firsts(r.runs),
                                SamplesPerChunk     |-> Seconds2(r.runs),
                                SampleDescriptionID |-> Thirds(r.runs)],
                      !.Stco = [ChunkOffset |-> [j \in 1 .. r.index |-> 0]]]]

----------------------------------------------------------------------------
(* clipFilter.updateDurations, lines 279-301 *)

\* The inner loop: <<start, end>> over the chunks of track tnum that are not skipped
RECURSIVE startEnd(_, _, _, _)
startEnd(chunks, tnum, start, end) ==
    IF chunks = <<>> THEN <<start, end>>
    ELSE LET c == Head(chunks)
         IN  IF c.track # tnum \/ c.skip
             THEN startEnd(Tail(chunks), tnum, start, end)
             ELSE startEnd(Tail(chunks), tnum,
                           IF start = ZeroDur \/ DurLT(c.firstTC, start) THEN c.firstTC ELSE start,
                           IF end = ZeroDur \/ DurGT(c.lastTC, end) THEN c.lastTC ELSE end)

\* The outer loop over m.Trak, tnum is the Go index
RECURSIVE durationsLoop(_, _, _)
durationsLoop(chunks, m, tnum) ==
    IF tnum >= Len(m.Trak) THEN m
    ELSE
      LET t == m.Trak[tnum + 1]
          se == startEnd(chunks, tnum, ZeroDur, ZeroDur)
          d == DurSub(se[2], se[1])
          mdhd == DurToTicks(d, t.Mdhd.Timescale)
          tkhd == DurToTicks(d, m.Mvhd.Timescale)
          t2 == [t EXCEPT !.Mdhd.Duration = mdhd, !.Tkhd.Duration = tkhd]
          m2 == [m EXCEPT !.Trak[tnum + 1] = t2,
                          !.Mvhd.Duration = IF tkhd > m.Mvhd.Duration THEN tkhd
                                            ELSE m.Mvhd.Duration]
      IN  durationsLoop(chunks, m2, tnum + 1)

updateDurations(chunks, m) ==
    durationsLoop(chunks, [m EXCEPT !.Mvhd.Duration = 0], 0)

----------------------------------------------------------------------------
(* sort.Sort(f.chunks) with mdat.Less, lines 36-48 and 110 *)

RECURSIVE insertChunk(_, _)
insertChunk(sorted, c) ==
    IF sorted = <<>> THEN <<c>>
    ELSE IF c.oldOffset < Head(sorted).oldOffset THEN <<c>> \o sorted
    ELSE <<Head(sorted)>> \o insertChunk(Tail(sorted), c)

\* Variant: the list as buildChunkList appended it, track after track
chunksAsBuilt(chunks) == chunks

\* Ascending oldOffset.  Chunks of equal oldOffset keep their order: sort.Sort
\* sorts a list this short by insertion.
RECURSIVE sortChunks(_)
sortChunks(chunks) ==
    IF chunks = <<>> THEN <<>>
    ELSE insertChunk(sortChunks(SubSeq(chunks, 1, Len(chunks) - 1)), chunks[Len(chunks)])

----------------------------------------------------------------------------
(* clipFilter.updateChunkOffsets, lines 260-277 *)

\* The loop over f.chunks: i maps a Go track index to its cursor, offset and sz
\* are the Go variables.
RECURSIVE offsetsLoop(_, _, _, _, _, _)
offsetsLoop(chunks, m, deltaOff, i, offset, sz) ==
    IF chunks = <<>> THEN [m |-> m, sz |-> sz]
    ELSE
      LET c == Head(chunks)
          offset2 == IF offset = 0 THEN c.oldOffset + deltaOff ELSE offset
      IN  IF ~c.skip
          THEN offsetsLoop(Tail(chunks),
                           [m EXCEPT !.Trak[c.track + 1].Stco.ChunkOffset[i[c.track] + 1] =
                                         offset2 + sz],
                           deltaOff,
                           [i EXCEPT ![c.track] = @ + 1],
                           offset2, sz + size(c))
          ELSE offsetsLoop(Tail(chunks), m, deltaOff, i, offset2, sz)

\* Variant: the offsets start from the old offset of the first chunk, the growth
\* of the moov left out
updateChunkOffsetsNoDelta(chunks, m, deltaOff) ==
    offsetsLoop(chunks, m, 0, [tnum \in 0 .. (Len(m.Trak) - 1) |-> 0], 0, 0)

updateChunkOffsets(chunks, m, deltaOff) ==
    offsetsLoop(chunks, m, deltaOff, [tnum \in 0 .. (Len(m.Trak) - 1) |-> 0], 0, 0)

----------------------------------------------------------------------------
(* clipFilter.FilterMoov, lines 90-121 *)

\* Clip without the check of begin
ClipUnchecked(begin, duration) ==
    [ err      |-> NoErr,
      begin    |-> Seconds(begin),
      end      |-> Seconds(begin + duration),
      mdatSize |-> 0,
      chunks   |-> <<>> ]

\* Clip(begin, duration), lines 82-88
Clip(begin, duration) ==
    [ err      |-> IF begin < 0 THEN ErrClipOutside ELSE NoErr,
      begin    |-> Seconds(begin),
      end      |-> Seconds(begin + duration),
      mdatSize |-> 0,
      chunks   |-> <<>> ]

\* time.Second * time.Duration(m.Mvhd.Duration) / time.Duration(m.Mvhd.Timescale)
movieDuration(m) == TicksToDur(m.Mvhd.Duration, m.Mvhd.Timescale)

\* The loop over m.Trak, lines 102-108; tnum is the Go index
RECURSIVE trakLoop(_, _, _, _, _)
trakLoop(chunks, m, begin, end, tnum) ==
    IF tnum >= Len(m.Trak) THEN [panic |-> FALSE, chunks |-> chunks, m |-> m]
    ELSE
      LET b == buildChunkList(tnum, m.Trak[tnum + 1])
          chunks1 == chunks \o b.chunks
          t1 == updateSamples(chunks1, begin, end, tnum, m.Trak[tnum + 1])
          u == updateChunks(chunks1, begin, end, tnum, t1)
      IN  IF b.panic THEN [panic |-> TRUE, chunks |-> chunks1, m |-> m]
          ELSE trakLoop(u.chunks, [m EXCEPT !.Trak[tnum + 1] = u.trak],
                        begin, end, tnum + 1)

\* The clamp of f.end without the duration-0 case
clipEndPastMovieOnly(ff, m) ==
    IF DurGT(ff.end, movieDuration(m)) THEN movieDuration(m) ELSE ff.end

\* f.end after lines 97-99
clipEnd(ff, m) ==
    IF DurGT(ff.end, movieDuration(m)) \/ ff.end = ff.begin
    THEN movieDuration(m) ELSE ff.end

\* What a FilterMoov call that completes returns and leaves: nil, the filter with
\* its end, its sorted chunk list and its mdatSize, and the moov with the new offsets
moovResult(ff, end2, sorted, o) ==
    [ret |-> NoErr,
     f   |-> [ff EXCEPT !.end = end2, !.chunks = sorted, !.mdatSize = o.sz],
     m   |-> o.m]

\* Lines 117-119: deltaOffset := m.Size() - oldSize, then updateChunkOffsets
placeChunksAfter(ff, end2, oldSize, sorted, m2) ==
    moovResult(ff, end2, sorted, updateChunkOffsets(sorted, m2, MoovSize(m2) - oldSize))

\* Lines 109-110 after the loop over m.Trak answered r: updateDurations, sort.Sort.
\* A panic in the loop leaves the filter and the moov as they were at that point.
rewriteFrom(ff, end2, oldSize, r) ==
    IF r.panic
    THEN [ret |-> "panic",
          f   |-> [ff EXCEPT !.end = end2, !.chunks = r.chunks],
          m   |-> r.m]
    ELSE placeChunksAfter(ff, end2, oldSize, sortChunks(r.chunks),
                          updateDurations(r.chunks, r.m))

\* clipFilter.FilterMoov.  The result: the value returned ("panic" when the call
\* panicked), the filter and the moov as the call leaves them.
FilterMoov(ff, m) ==
    IF ff.err # NoErr THEN [ret |-> ff.err, f |-> ff, m |-> m]
    ELSE IF m.Mvhd.Timescale = 0 THEN [ret |-> "panic", f |-> ff, m |-> m]
    ELSE IF DurGT(ff.begin, movieDuration(m)) THEN [ret |-> ErrClipOutside, f |-> ff, m |-> m]
    ELSE rewriteFrom(ff, clipEnd(ff, m), MoovSize(m),
                     trakLoop(<<>>, m, ff.begin, clipEnd(ff, m), 0))

----------------------------------------------------------------------------
(* clipFilter.FilterMdat, lines 303-341, and EncodeHeader *)

Entry(kind, bytes, sz, src) == [kind |-> kind, bytes |-> bytes, size |-> sz, src |-> src]

NoFault == [at |-> 0, kind |-> "none", n |-> 0, err |-> NoErr]

\* What the reader and the writer can answer one FilterMdat call with.  The
\* header write fails; or at chunk number `at` (in list order), of s bytes:
\* the Read returns an error (io.EOF or another), the Read returns n < s bytes
\* and no error, the Write returns an error, or the Write takes n < s bytes and
\* returns no error.  A call that returns an error transfers no byte.
Faults(ff) ==
    {NoFault, [at |-> 0, kind |-> "header", n |-> 0, err |-> ErrWrite]}
    \cup {[at |-> k, kind |-> "readerr", n |-> 0, err |-> e] :
            k \in 1 .. Len(ff.chunks), e \in {EOF, ErrRead}}
    \cup UNION {{[at |-> k, kind |-> "shortread", n |-> n, err |-> NoErr] :
                    n \in 0 .. (size(ff.chunks[k]) - 1)} : k \in 1 .. Len(ff.chunks)}
    \cup {[at |-> k, kind |-> "write", n |-> 0, err |-> ErrWrite] :
            k \in {j \in 1 .. Len(ff.chunks) : ~ff.chunks[j].skip}}
    \cup UNION {{[at |-> k, kind |-> "shortwrite", n |-> n, err |-> NoErr] :
                    n \in 0 .. (size(ff.chunks[k]) - 1)} :
                k \in {j \in 1 .. Len(ff.chunks) : ~ff.chunks[j].skip}}

\* The copy loop of lines 319-339 from chunk k on
RECURSIVE copyLoop(_, _, _, _, _)
copyLoop(chunks, k, md, snk, fault) ==
    IF k > Len(chunks) THEN [ret |-> NoErr, mdat |-> md, sink |-> snk]
    ELSE
      LET c == chunks[k]
          s == size(c)
          md2 == [md EXCEPT !.pos = @ + s]
      IN  IF fault.at = k /\ fault.kind = "readerr"
          THEN [ret |-> fault.err, mdat |-> md, sink |-> snk]
          ELSE IF fault.at = k /\ fault.kind = "shortread"
          THEN [ret |-> ErrTruncatedChunk, mdat |-> [md EXCEPT !.pos = @ + fault.n],
                sink |-> snk]
          ELSE IF c.skip THEN copyLoop(chunks, k + 1, md2, snk, fault)
          ELSE IF fault.at = k /\ fault.kind = "write"
          THEN [ret |-> fault.err, mdat |-> md2, sink |-> snk]
          ELSE IF fault.at = k /\ fault.kind = "shortwrite"
          THEN [ret |-> ErrTruncatedChunk, mdat |-> md2,
                sink |-> Append(snk, Entry("data", fault.n, 0, md.start + md.pos))]
          ELSE copyLoop(chunks, k + 1, md2,
                        Append(snk, Entry("data", s, 0, md.start + md.pos)), fault)

\* The value returned, the MdatBox and the sink after FilterMdat(w, m)
FilterMdat(ff, md, snk, fault) ==
    IF ff.err # NoErr THEN [ret |-> ff.err, mdat |-> md, sink |-> snk]
    ELSE
      LET md1 == [md EXCEPT !.ContentSize = ff.mdatSize]
      IN  IF fault.kind = "header"
          THEN [ret |-> fault.err, mdat |-> md1, sink |-> snk]
          ELSE copyLoop(ff.chunks, 1, md1,
                        Append(snk, Entry("mdat", BoxHeaderSize, MdatSize(md1), 0)), fault)

----------------------------------------------------------------------------
(* MdatBox.Encode, src/box.go lines 1646-1653 *)

ErrShortWrite == "short write"

\* What the reader and the writer can answer one MdatBox.Encode call with, when
\* the reader has `left` bytes to its end.  The header write fails; or, n bytes
\* into the copy, the Read returns an error with them, the Write returns an
\* error having taken them, or the Write takes them and no more without an
\* error.  The failures tried are at the first byte and at the last.
CopyFaults(left) ==
    {NoFault, [at |-> 0, kind |-> "header", n |-> 0, err |-> ErrWrite]}
    \cup {[at |-> 0, kind |-> "readerr", n |-> n, err |-> ErrRead] :
            n \in {k \in {0, left - 1} : k >= 0}}
    \cup {[at |-> 0, kind |-> k, n |-> n,
           err |-> IF k = "write" THEN ErrWrite ELSE ErrShortWrite] :
            k \in {"write", "shortwrite"}, n \in {j \in {0, left - 1} : j >= 0 /\ j < left}}

\* The value returned, the MdatBox and the sink after MdatBox.Encode(w):
\* EncodeHeader, then io.Copy(w, b.r) to the end of the reader.  ContentSize is
\* not touched; a failed Read leaves the reader after the bytes it returned, a
\* failed Write after all that was read for it.
MdatEncode(md, left, snk, fault) ==
    LET head == Append(snk, Entry("mdat", BoxHeaderSize, MdatSize(md), 0))
        n == IF fault.kind = "none" THEN left ELSE fault.n
        read == IF fault.kind = "readerr" THEN fault.n ELSE left
    IN  IF fault.kind = "header"
        THEN [ret |-> fault.err, mdat |-> md, sink |-> snk]
        ELSE [ret  |-> fault.err,
              mdat |-> [md EXCEPT !.pos = @ + read],
              sink |-> IF n = 0 THEN head
                       ELSE Append(head, Entry("data", n, 0, md.start + md.pos))]

----------------------------------------------------------------------------
(* The movies of the model: what Decode hands to the filter *)

RECURSIVE SortedSeq(_)
SortedSeq(S) ==
    IF S = {} THEN <<>>
    ELSE LET x == CHOOSE x \in S : \A y \in S : x <= y
         IN  <<x>> \o SortedSeq(S \ {x})

\* A profile is the number of samples of each chunk of a track, in chunk order
Profiles == UNION {[1 .. n -> 1 .. MaxSpc] : n \in 0 .. MaxChunks}

MediaTimescales == {1, 2, 3}
MovieTimescales == {1, 2}
Shapes == {"flat", "split"}
Variants == {"video", "audio"}
Layouts == {"seq", "alt"}

\* Sample number of the first sample of chunk i
FirstOfChunk(p, i) == SumSeq(SubSeq(p, 1, i - 1)) + 1

\* A track with chunk profile p.  "video": per-sample sizes (sample k has k bytes),
\* keyframes at the odd samples, a ctts box.  "audio": uniform sample size, no stss,
\* no ctts.  "flat": one stts run of delta 1; "split": a first sample of delta 1 and
\* the others of delta 2.
MakeTrak(p, ts, shape, variant, mvts) ==
    LET N == SumSeq(p)
        split == shape = "split" /\ N >= 2
        counts == IF N = 0 THEN <<>> ELSE IF split THEN <<1, N - 1>> ELSE <<N>>
        deltas == IF N = 0 THEN <<>> ELSE IF split THEN <<1, 2>> ELSE <<1>>
        ticks == IF N = 0 THEN 0 ELSE IF split THEN 1 + 2 * (N - 1) ELSE N
        starts == SortedSeq({i \in 1 .. Len(p) : i = 1 \/ p[i] # p[i - 1]})
        video == variant = "video"
    IN  [ Tkhd |-> [Duration |-> (ticks * mvts) \div ts],
          Mdhd |-> [Timescale |-> ts, Duration |-> ticks],
          Stts |-> [SampleCount |-> counts, SampleTimeDelta |-> deltas],
          Stss |-> IF video
                   THEN [present |-> TRUE,
                         SampleNumber |-> SortedSeq({k \in 1 .. N : k % 2 = 1})]
                   ELSE [present |-> FALSE, SampleNumber |-> <<>>],
          Stsc |-> [FirstChunk |-> starts,
                    SamplesPerChunk |-> [k \in 1 .. Len(starts) |-> p[starts[k]]],
                    SampleDescriptionID |-> [k \in 1 .. Len(starts) |-> 1]],
          Stsz |-> IF video
                   THEN [SampleUniformSize |-> 0, SampleNumber |-> N,
                         SampleSize |-> [k \in 1 .. N |-> k]]
                   ELSE [SampleUniformSize |-> 3, SampleNumber |-> N, SampleSize |-> <<>>],
          Stco |-> [ChunkOffset |-> [i \in 1 .. Len(p) |-> 0]],
          Ctts |-> IF video
                   THEN [present |-> TRUE,
                         SampleCount |-> IF N = 0 THEN <<>> ELSE IF N = 1 THEN <<1>>
                                         ELSE <<1, N - 1>>,
                         SampleOffset |-> IF N = 0 THEN <<>> ELSE IF N = 1 THEN <<1>>
                                          ELSE <<1, 0>>]
                   ELSE [present |-> FALSE, SampleCount |-> <<>>, SampleOffset |-> <<>>],
          StsdSize  |-> BoxHeaderSize + 4 + 90,
          MinfOther |-> IF video THEN 20 + 36 ELSE 16 + 36,
          MhdSize   |-> IF video THEN BoxHeaderSize + 12 ELSE BoxHeaderSize + 8,
          HdlrSize  |-> BoxHeaderSize + 24 + 13,
          EdtsSize  |-> 0 ]

\* Bytes of chunk i of a track of profile p
ChunkBytes(t, p, i) ==
    SumSeq([k \in 1 .. p[i] |-> GetSampleSize(t.Stsz, FirstOfChunk(p, i) + k - 1)])

\* The order of the chunks in the mdat, as <<Go track index, chunk index>>:
\* "seq" track after track, "alt" the tracks' chunks alternating.
ChunkOrder(ps, layout) ==
    LET all == {<<tn, i>> : tn \in 0 .. (Len(ps) - 1), i \in 1 .. MaxChunks + 1}
        mine == {x \in all : x[2] <= Len(ps[x[1] + 1])}
        key(x) == IF layout = "seq" THEN x[1] * (MaxChunks + 2) + x[2]
                  ELSE x[2] * (Len(ps) + 1) + x[1]
        keys == SortedSeq({key(x) : x \in mine})
    IN  [k \in 1 .. Len(keys) |-> CHOOSE x \in mine : key(x) = keys[k]]

\* The tracks with their chunk offsets set: the chunks lie one after the other in
\* `order` from file offset `at` on.
RECURSIVE PlaceChunks(_, _, _, _)
PlaceChunks(traks, ps, order, at) ==
    IF order = <<>> THEN traks
    ELSE LET tn == Head(order)[1]
             i == Head(order)[2]
         IN  PlaceChunks([traks EXCEPT ![tn + 1].Stco.ChunkOffset[i] = at], ps,
                         Tail(order), at + ChunkBytes(traks[tn + 1], ps[tn + 1], i))

RECURSIVE MaxTkhd(_)
MaxTkhd(traks) ==
    IF traks = <<>> THEN 0
    ELSE LET d == Head(traks).Tkhd.Duration
             r == MaxTkhd(Tail(traks))
         IN  IF d > r THEN d ELSE r

TheFtyp == [CompatibleBrands |-> 2]

\* A movie: ftyp, moov, then one mdat holding the chunks contiguously
MakeMoov(traks, ps, layout, mvts) ==
    LET m0 == [ Mvhd  |-> [Timescale |-> mvts, Duration |-> MaxTkhd(traks), Extra |-> 74],
                Other |-> 0,
                Trak  |-> traks ]
        start == FtypSize(TheFtyp) + MoovSize(m0) + BoxHeaderSize
    IN  [m0 EXCEPT !.Trak = PlaceChunks(traks, ps, ChunkOrder(ps, layout), start)]

\* The second track of a two-track movie: a short and a long audio track
SecondProfiles == {<<1>>, <<2, 2>>}

\* The track with an stsc that gives every chunk 0 samples, one run a chunk, each
\* with a sample description of its own: the chunk loop of buildChunkList asks no
\* sample size for such a track
Hollow(t) ==
    LET n == Len(t.Stco.ChunkOffset)
    IN  [t EXCEPT !.Stsc = [FirstChunk          |-> [k \in 1 .. n |-> k],
                            SamplesPerChunk     |-> [k \in 1 .. n |-> 0],
                            SampleDescriptionID |-> [k \in 1 .. n |-> k]]]

\* The profiles of the tracks with such an stsc: one sample a chunk in the tables
HollowProfiles == {p \in Profiles : p # <<>> /\ \A i \in DOMAIN p : p[i] = 1}

\* Where the chunks of such a track lie: one after the other by the sizes the
\* stsz gives the samples, or packed, each chunk where the one before it ends,
\* which for chunks without a sample is one offset for all
Placed(p, packed) == IF packed THEN [i \in DOMAIN p |-> 0] ELSE p

Movies ==
    {MakeMoov(<<MakeTrak(p, ts, sh, v, mvts)>>, <<p>>, "seq", mvts) :
        p \in Profiles, ts \in MediaTimescales, sh \in Shapes, v \in Variants,
        mvts \in MovieTimescales}
    \cup
    {MakeMoov(<<MakeTrak(x[1], x[2], "flat", "video", x[5]), MakeTrak(x[3], 2, "flat", "audio", x[5])>>,
              <<x[1], x[3]>>, x[4], x[5]) :
        x \in Profiles \X MediaTimescales \X SecondProfiles \X Layouts \X MovieTimescales}
    \cup
    {MakeMoov(<<Hollow(MakeTrak(p, ts, "flat", v, mvts))>>, <<Placed(p, pk)>>, "seq", mvts) :
        p \in HollowProfiles, ts \in MediaTimescales, v \in Variants,
        mvts \in MovieTimescales, pk \in BOOLEAN}
    \cup
    {MakeMoov(<<Hollow(MakeTrak(x[1], 3, "flat", "video", x[4])),
                Hollow(MakeTrak(x[2], 2, "flat", "audio", x[4]))>>,
              <<Placed(x[1], x[3]), Placed(x[2], x[3])>>, "alt", x[4]) :
        x \in HollowProfiles \X HollowProfiles \X BOOLEAN \X MovieTimescales}

\* Bytes of the source mdat payload
RECURSIVE PayloadBytes(_)
PayloadBytes(chunks) ==
    IF chunks = <<>> THEN 0 ELSE size(Head(chunks)) + PayloadBytes(Tail(chunks))

\* Payload bytes of the mdat of the file movie m was decoded from: the sizes of all its samples
MoviePayload(m) ==
    SumSeq([tn \in 1 .. Len(m.Trak) |->
              IF m.Trak[tn].Stsz.SampleUniformSize = 0
              THEN SumSeq(m.Trak[tn].Stsz.SampleSize)
              ELSE m.Trak[tn].Stsz.SampleNumber * m.Trak[tn].Stsz.SampleUniformSize])

\* Bytes between the reader of the MdatBox and the end of the payload
PayloadLeft(m, md) ==
    IF MoviePayload(m) > md.pos THEN MoviePayload(m) - md.pos ELSE 0

Begins == (0 - 1) .. MaxBegin
Durations == (0 - 1) .. MaxDuration

----------------------------------------------------------------------------
(* The decoder: Decode (src/mp4.go), DecodeHeader, DecodeBox, DecodeContainer *)
(* and the box decoders and encoders (src/box.go).                          *)
(*                                                                          *)
(* A file is a sequence of 4-byte words, each kept as the big-endian uint32 *)
(* it spells; a box type is the word its four ASCII bytes spell.  Reader    *)
(* positions and sizes are in bytes.  The files of the model hold whole     *)
(* words: box sizes are multiples of 4, or the special values 0 and 1.      *)
(* The reader is one that hands out all it has (a bytes.Reader, a file).    *)

ErrUnknownBoxType == "unknown box type"
ErrTruncatedHeader == "truncated header"
ErrBadFormat == "bad format"
WordSize == 4
Half == 65536

\* string(buf[4:8]) of the box types the package knows, and "free"
TypeCode ==
    [ ftyp |-> 1718909296, moov |-> 1836019574, mvhd |-> 1836476516,
      iods |-> 1768907891, trak |-> 1953653099, udta |-> 1969517665,
      tkhd |-> 1953196132, edts |-> 1701082227, elst |-> 1701606260,
      mdia |-> 1835297121, minf |-> 1835626086, mdhd |-> 1835296868,
      hdlr |-> 1751411826, vmhd |-> 1986881636, smhd |-> 1936549988,
      dinf |-> 1684631142, dref |-> 1685218662, stbl |-> 1937007212,
      stco |-> 1937007471, stsc |-> 1937011555, stsz |-> 1937011578,
      ctts |-> 1668576371, stsd |-> 1937011556, stts |-> 1937011827,
      stss |-> 1937011571, meta |-> 1835365473, mdat |-> 1835295092,
      free |-> 1718773093 ]

\* The type a word spells; "????" stands for any string that is no known type
TypeOf(w) ==
    IF \E t \in DOMAIN TypeCode : TypeCode[t] = w
    THEN CHOOSE t \in DOMAIN TypeCode : TypeCode[t] = w
    ELSE "????"

\* The keys of the decoders map
Registered == DOMAIN TypeCode \ {"free"}

\* The decoders that call DecodeContainer, with the cases of their type switch
ChildTypes ==
    [ moov |-> {"mvhd", "iods", "trak", "udta"},
      trak |-> {"tkhd", "mdia", "edts"},
      edts |-> {"elst"},
      mdia |-> {"mdhd", "hdlr", "minf"},
      minf |-> {"vmhd", "smhd", "stbl", "dinf", "hdlr"},
      stbl |-> {"stsd", "stts", "stsc", "stss", "stsz", "stco", "ctts"},
      dinf |-> {"dref"},
      udta |-> {"meta"} ]

Containers == DOMAIN ChildTypes

\* The order in which a container's Encode writes its fields; opt: the field
\* is written only if it is not nil, many: the field is a slice
EncodeSlots ==
    [ moov |-> << [t |-> "mvhd", opt |-> FALSE, many |-> FALSE],
                  [t |-> "iods", opt |-> TRUE,  many |-> FALSE],
                  [t |-> "trak", opt |-> TRUE,  many |-> TRUE],
                  [t |-> "udta", opt |-> TRUE,  many |-> FALSE] >>,
      trak |-> << [t |-> "tkhd", opt |-> FALSE, many |-> FALSE],
                  [t |-> "edts", opt |-> TRUE,  many |-> FALSE],
                  [t |-> "mdia", opt |-> FALSE, many |-> FALSE] >>,
      edts |-> << [t |-> "elst", opt |-> FALSE, many |-> FALSE] >>,
      mdia |-> << [t |-> "mdhd", opt |-> FALSE, many |-> FALSE],
                  [t |-> "hdlr", opt |-> TRUE,  many |-> FALSE],
                  [t |-> "minf", opt |-> FALSE, many |-> FALSE] >>,
      minf |-> << [t |-> "vmhd", opt |-> TRUE,  many |-> FALSE],
                  [t |-> "smhd", opt |-> TRUE,  many |-> FALSE],
                  [t |-> "dinf", opt |-> FALSE, many |-> FALSE],
                  [t |-> "stbl", opt |-> FALSE, many |-> FALSE],
                  [t |-> "hdlr", opt |-> TRUE,  many |-> FALSE] >>,
      stbl |-> << [t |-> "stsd", opt |-> FALSE, many |-> FALSE],
                  [t |-> "stts", opt |-> FALSE, many |-> FALSE],
                  [t |-> "stss", opt |-> TRUE,  many |-> FALSE],
                  [t |-> "stsc", opt |-> FALSE, many |-> FALSE],
                  [t |-> "stsz", opt |-> FALSE, many |-> FALSE],
                  [t |-> "stco", opt |-> FALSE, many |-> FALSE],
                  [t |-> "ctts", opt |-> TRUE,  many |-> FALSE] >>,
      dinf |-> << [t |-> "dref", opt |-> FALSE, many |-> FALSE] >>,
      udta |-> << [t |-> "meta", opt |-> FALSE, many |-> FALSE] >> ]

Min(x, y) == IF x < y THEN x ELSE y

\* The bytes of file s, as a position
FileEnd(s) == WordSize * Len(s)

\* The words of s from byte position a up to byte position b
Words(s, a, b) == SubSeq(s, a \div WordSize + 1, b \div WordSize)

\* h.Size - BoxHeaderSize in uint32: below 8 the difference wraps to
\* 2^32 - 8 + size, kept as the negative number congruent to it
PayloadLength(sz) == sz - BoxHeaderSize

\* io.LimitReader(r, int64(n)) on a reader at p that ends at end: where the
\* limited reader ends.  A wrapped n is above 2^32 - 9, beyond any file here.
LimitEnd(p, end, n) == IF n < 0 THEN end ELSE Min(end, p + n)

\* DecodeHeader on a reader at p that ends at end
DecodeHeader(s, p, end) ==
    LET n == Min(BoxHeaderSize, end - p)
    IN  IF n <= 0
        THEN [err |-> EOF, Type |-> "", Size |-> 0, pos |-> p]
        ELSE IF n # BoxHeaderSize
        THEN [err |-> ErrTruncatedHeader, Type |-> "", Size |-> 0, pos |-> p + n]
        ELSE [err |-> NoErr, Type |-> TypeOf(s[p \div WordSize + 2]),
              Size |-> s[p \div WordSize + 1], pos |-> p + BoxHeaderSize]

\* The high 16 bits of a word: a uint16 field followed by two bytes not decoded
HighHalf(w) == (w \div Half) * Half

\* bytes.MinRead, 512 bytes, in words
MinRead == 128

\* The entries of the tables, in words; the 8 bytes before them hold the
\* version, the flags and the entry count
TableEntryWords ==
    [ stts |-> 2, ctts |-> 2, stsc |-> 3, elst |-> 3, stss |-> 1, stco |-> 1 ]

\* Words the payload must hold (len(data)): the index expressions data[0] ..
\* data[3] of the boxes with a version, and the slices without a second bound
\* data[26:] of mvhd, data[24:] of hdlr and data[4:] of stsd, dref and meta.
\* DecodeFtyp and DecodeIods have neither.
IndexedWords ==
    [ ftyp |-> 0, mvhd |-> 7, iods |-> 0, tkhd |-> 1, mdhd |-> 1, hdlr |-> 6,
      vmhd |-> 1, smhd |-> 1, dref |-> 1, stsd |-> 1, meta |-> 1, stsz |-> 1,
      stts |-> 1, ctts |-> 1, stsc |-> 1, elst |-> 1, stss |-> 1, stco |-> 1 ]

\* Words of the layout before any entry, as Size() counts them; of ftyp the
\* two brands words, of the boxes kept whole nothing
FixedWords ==
    [ ftyp |-> 2, mvhd |-> 0, iods |-> 0, tkhd |-> 21, mdhd |-> 6, hdlr |-> 0,
      vmhd |-> 3, smhd |-> 2, dref |-> 0, stsd |-> 0, meta |-> 0, stsz |-> 3,
      stts |-> 2, ctts |-> 2, stsc |-> 2, elst |-> 2, stss |-> 2, stco |-> 2 ]

\* The ioutil.ReadAll of the Go release the program is built with.  "buffer":
\* it reads through a bytes.Buffer (up to Go 1.15).  "double", "smooth": it is
\* io.ReadAll, which starts from make([]byte, 0, 512) and grows the slice with
\* append(b, 0) when it is full; append doubles a capacity below 1024 (Go 1.16
\* and 1.17) or adds (cap + 768) / 4 to it (Go 1.18 to 1.25).  "minimal": it is
\* the io.ReadAll that returns a slice made for the bytes read (since Go 1.26).
Builds == {"buffer", "double", "smooth", "minimal"}

\* The size classes of the allocator from 512 bytes on; a larger slice takes
\* whole pages of 8192 bytes
SizeClasses ==
    { 512, 576, 640, 704, 768, 896, 1024, 1152, 1280, 1408, 1536, 1792, 2048, 2304,
      2688, 3072, 3200, 3456, 4096, 4864, 5120, 5376, 6144, 6528, 6784, 6912, 8192,
      9472, 9728, 10240, 10880, 12288, 13568, 14336, 16384, 18432, 19072, 20480,
      21760, 24576, 27264, 28672, 32768 }

\* The bytes the allocator gives for a slice of n bytes
RoundUpSize(n) ==
    IF n <= 32768
    THEN CHOOSE c \in SizeClasses : c >= n /\ \A d \in SizeClasses : d >= n => c <= d
    ELSE ((n + 8191) \div 8192) * 8192

\* cap(append(b, 0)) in bytes for a full b of capacity c
GrowSlice(bld, c) ==
    IF bld = "double"
    THEN RoundUpSize(IF c < 1024 THEN 2 * c ELSE c + c \div 4)
    ELSE RoundUpSize(c + (c + 768) \div 4)

\* The capacity in bytes ReadAll ends with after n bytes, grown from c.  The
\* Buffer makes room for MinRead bytes before every Read, in a slice of
\* 2 * cap + MinRead bytes when the room is not there; io.ReadAll grows a
\* slice that is full before it reads on, and the last Read finds the end.
\* The io.ReadAll of "minimal" returns its first slice when the bytes read
\* leave a sixteenth of it free, and otherwise copies what it has read into
\* append([]byte(nil), make([]byte, n)...), a slice of the size class of n.
RECURSIVE ReadAllGrown(_, _, _)
ReadAllGrown(bld, c, n) ==
    IF bld = "buffer"
    THEN IF n + WordSize * MinRead <= c THEN c
         ELSE ReadAllGrown(bld, 2 * c + WordSize * MinRead, n)
    ELSE IF bld = "minimal"
    THEN IF c - n >= c \div 16 THEN c ELSE RoundUpSize(n)
    ELSE IF n < c THEN c
         ELSE ReadAllGrown(bld, GrowSlice(bld, c), n)

\* cap(data) in words of the slice ioutil.ReadAll returns under build bld: for
\* a payload below 512 bytes 512 bytes, and 1536 bytes from the Buffer when
\* the payload is not empty; for a longer one what the build's growth gives,
\* under "minimal" no more than the size class of its length.  A slice expression with both bounds data[a:b]
\* is checked against it, not against len(data).
ReadAllCap(bld, data) ==
    ReadAllGrown(bld, WordSize * MinRead, WordSize * Len(data)) \div WordSize

\* binary.BigEndian.Uint32(data[a:b]) on word i: the bytes between len(data)
\* and cap(data) are zero
WordAt(data, i) == IF i <= Len(data) THEN data[i] ELSE 0

\* How many entries the decoder's loop reads; DecodeStsz reads its entries
\* only if len(data) > 12
EntryCount(t, data) ==
    IF t \in DOMAIN TableEntryWords THEN WordAt(data, 2)
    ELSE IF t = "stsz" /\ Len(data) > 3 THEN data[3]
    ELSE 0

EntryWords(t) == IF t \in DOMAIN TableEntryWords THEN TableEntryWords[t] ELSE 1

\* Words of the decoded box as its Encode lays it out
LeafWords(t, data) ==
    IF t \in DOMAIN TableEntryWords \/ t = "stsz"
    THEN FixedWords[t] + EntryWords(t) * EntryCount(t, data)
    ELSE IF FixedWords[t] > Len(data) \/ t \in {"tkhd", "mdhd", "vmhd", "smhd"}
    THEN FixedWords[t]
    ELSE Len(data)

\* The decoder panics: a byte it indexes is not in the payload, or an entry
\* of the count it read lies beyond the capacity (a count of 2^31 or more,
\* kept negative, always does)
LeafPanics(bld, t, data) ==
    \/ Len(data) < IndexedWords[t]
    \/ EntryCount(t, data) < 0
    \/ EntryCount(t, data) > ReadAllCap(bld, data)
    \/ /\ EntryCount(t, data) > 0
       /\ FixedWords[t] + EntryWords(t) * EntryCount(t, data) > ReadAllCap(bld, data)

\* What a leaf decoder keeps of its payload, laid out as the box's Encode
\* writes it into makebuf(b): bytes that no field holds are zero, bytes past
\* Size() are gone, bytes the payload did not have were read as zero.
LeafFields(t, data) ==
    [i \in 1 .. LeafWords(t, data) |->
        IF t = "tkhd" /\ i \in {5, 7, 8} THEN 0
        ELSE IF t = "hdlr" /\ i \in {4, 5, 6} THEN 0
        ELSE IF (t = "tkhd" /\ i = 10) \/ (t = "mdhd" /\ i = 6) \/ (t = "smhd" /\ i = 2)
        THEN HighHalf(WordAt(data, i))
        ELSE WordAt(data, i)]

Box(t, fields, kids) == [Type |-> t, fields |-> fields, kids |-> kids]
NilBox == Box("", <<>>, <<>>)

Decoded(box, pos, log) == [err |-> NoErr, box |-> box, pos |-> pos, log |-> log]
Failed(e, pos, log) == [err |-> e, box |-> NilBox, pos |-> pos, log |-> log]

\* One header as the log keeps it: the header, where it was read, the nesting
\* depth and the length given to the LimitReader (limited is FALSE when no
\* LimitReader was made for the box).
BoxCall(h, depth, limited) ==
    [Type |-> h.Type, Size |-> h.Size, at |-> h.pos - BoxHeaderSize, depth |-> depth,
     limited |-> limited, n |-> IF limited THEN PayloadLength(h.Size) ELSE 0]

\* A leaf decoder on the payload bytes p .. e: ioutil.ReadAll, then the fields
DecodeLeaf(bld, t, s, p, e, log) ==
    LET data == Words(s, p, e)
    IN  IF LeafPanics(bld, t, data) THEN Failed("panic", e, log)
        ELSE Decoded(Box(t, LeafFields(t, data), <<>>), e, log)

RECURSIVE DecodeBox(_, _, _, _, _, _, _)
RECURSIVE DecodeContainer(_, _, _, _, _, _, _)

\* DecodeBox(h, r) with r at p, ending at end
DecodeBox(bld, h, s, p, end, depth, log) ==
    IF h.Type \notin Registered
    THEN Failed(ErrUnknownBoxType, p, Append(log, BoxCall(h, depth, FALSE)))
    ELSE LET e == LimitEnd(p, end, PayloadLength(h.Size))
             lg == Append(log, BoxCall(h, depth, TRUE))
         IN  IF h.Type = "mdat" THEN Decoded(Box("mdat", <<>>, <<>>), p, lg)
             ELSE IF h.Type \in Containers
             THEN LET r == DecodeContainer(bld, s, p, e, depth + 1, <<>>, lg)
                  IN  IF r.err # NoErr THEN Failed(r.err, r.pos, r.log)
                      ELSE IF \E k \in 1 .. Len(r.l) : r.l[k].Type \notin ChildTypes[h.Type]
                      THEN Failed(ErrBadFormat, r.pos, r.log)
                      ELSE Decoded(Box(h.Type, <<>>, r.l), r.pos, r.log)
             ELSE DecodeLeaf(bld, h.Type, s, p, e, lg)

\* DecodeContainer(r) with r at p, ending at end; l is the list so far
DecodeContainer(bld, s, p, end, depth, l, log) ==
    LET h == DecodeHeader(s, p, end)
    IN  IF h.err = EOF THEN [err |-> NoErr, l |-> l, pos |-> h.pos, log |-> log]
        ELSE IF h.err # NoErr THEN [err |-> h.err, l |-> l, pos |-> h.pos, log |-> log]
        ELSE LET b == DecodeBox(bld, h, s, h.pos, end, depth, log)
             IN  IF b.err # NoErr THEN [err |-> b.err, l |-> l, pos |-> b.pos, log |-> b.log]
                 ELSE DecodeContainer(bld, s, b.pos, end, depth, Append(l, b.box), b.log)

\* The field a container's type switch leaves for type t: the last box of
\* that type in the list, NilBox if there is none
Field(kids, t) ==
    LET is == {k \in 1 .. Len(kids) : kids[k].Type = t}
    IN  IF is = {} THEN NilBox ELSE kids[CHOOSE k \in is : \A j \in is : j <= k]

IsType(b, t) == b.Type = t

\* The boxes a container's Encode writes for one slot, in order; a nil field
\* that Encode does not test is a nil dereference
SlotBoxes(kids, slot) ==
    IF slot.many THEN SelectSeq(kids, LAMBDA b : IsType(b, slot.t))
    ELSE IF Field(kids, slot.t) = NilBox THEN <<>>
    ELSE <<Field(kids, slot.t)>>

SlotPanics(kids, slot) == ~slot.opt /\ Field(kids, slot.t) = NilBox

\* Size() on a nil box of type t is a nil dereference: it reads a field of the
\* box.  The Size() of tkhd, mdhd, vmhd and smhd returns a constant.
NilSizePanics(t) == t \notin {"tkhd", "mdhd", "vmhd", "smhd"}

RECURSIVE Flatten(_)
Flatten(ss) == IF ss = <<>> THEN <<>> ELSE Head(ss) \o Flatten(Tail(ss))

\* EncodeHeader: uint32(b.Size()), then the type
Header(sz, t) == <<sz, TypeCode[t]>>

\* The fields a container's Size() adds up, in order; opt: the field is added
\* only if it is not nil, many: the field is a slice
SizeSlots ==
    [ moov |-> << [t |-> "mvhd", opt |-> FALSE, many |-> FALSE],
                  [t |-> "iods", opt |-> TRUE,  many |-> FALSE],
                  [t |-> "trak", opt |-> TRUE,  many |-> TRUE],
                  [t |-> "udta", opt |-> TRUE,  many |-> FALSE] >>,
      trak |-> << [t |-> "tkhd", opt |-> FALSE, many |-> FALSE],
                  [t |-> "mdia", opt |-> FALSE, many |-> FALSE],
                  [t |-> "edts", opt |-> TRUE,  many |-> FALSE] >>,
      edts |-> << [t |-> "elst", opt |-> FALSE, many |-> FALSE] >>,
      mdia |-> << [t |-> "mdhd", opt |-> FALSE, many |-> FALSE],
                  [t |-> "hdlr", opt |-> TRUE,  many |-> FALSE],
                  [t |-> "minf", opt |-> TRUE,  many |-> FALSE] >>,
      minf |-> << [t |-> "vmhd", opt |-> TRUE,  many |-> FALSE],
                  [t |-> "smhd", opt |-> TRUE,  many |-> FALSE],
                  [t |-> "stbl", opt |-> FALSE, many |-> FALSE],
                  [t |-> "dinf", opt |-> TRUE,  many |-> FALSE],
                  [t |-> "hdlr", opt |-> TRUE,  many |-> FALSE] >>,
      stbl |-> << [t |-> "stsd", opt |-> FALSE, many |-> FALSE],
                  [t |-> "stts", opt |-> TRUE,  many |-> FALSE],
                  [t |-> "stss", opt |-> TRUE,  many |-> FALSE],
                  [t |-> "stsc", opt |-> TRUE,  many |-> FALSE],
                  [t |-> "stsz", opt |-> TRUE,  many |-> FALSE],
                  [t |-> "stco", opt |-> TRUE,  many |-> FALSE],
                  [t |-> "ctts", opt |-> TRUE,  many |-> FALSE] >>,
      dinf |-> << [t |-> "dref", opt |-> FALSE, many |-> FALSE] >>,
      udta |-> << [t |-> "meta", opt |-> FALSE, many |-> FALSE] >> ]

\* Size() of a leaf box of type t holding fields: the header, the fixed part and
\* what the box's slice holds.  A table's length is the entry count it was
\* decoded with, the other slices are the payload from the fixed part on.
LeafSize(t, fields) ==
    IF t \in DOMAIN TableEntryWords
    THEN BoxHeaderSize + 8 + WordSize * TableEntryWords[t] * fields[2]
    ELSE IF t = "stsz"
    THEN BoxHeaderSize + 12 + WordSize * (IF Len(fields) > 3 THEN fields[3] ELSE 0)
    ELSE IF t \in {"tkhd", "mdhd", "vmhd", "smhd"}
    THEN BoxHeaderSize + WordSize * FixedWords[t]
    ELSE BoxHeaderSize + WordSize * Len(fields)

RECURSIVE SizePanics(_)
\* b.Size() panics: it calls Size() on a nil field that it does not test and
\* whose Size() reads the box, or on a box whose Size() panics
SizePanics(b) ==
    /\ b.Type \in Containers
    /\ \E k \in 1 .. Len(SizeSlots[b.Type]) :
          \/ SlotPanics(b.kids, SizeSlots[b.Type][k]) /\ NilSizePanics(SizeSlots[b.Type][k].t)
          \/ \E j \in 1 .. Len(SlotBoxes(b.kids, SizeSlots[b.Type][k])) :
                SizePanics(SlotBoxes(b.kids, SizeSlots[b.Type][k])[j])

RECURSIVE BoxSize(_)
\* What Size() adds for one slot: the sizes of the boxes of the field, or the
\* constant a nil tkhd or mdhd answers
SlotSize(kids, slot) ==
    IF SlotPanics(kids, slot) THEN BoxHeaderSize + WordSize * FixedWords[slot.t]
    ELSE SumSeq([j \in 1 .. Len(SlotBoxes(kids, slot)) |-> BoxSize(SlotBoxes(kids, slot)[j])])

\* b.Size(), for a box whose Size() does not panic
BoxSize(b) ==
    IF b.Type \notin Containers THEN LeafSize(b.Type, b.fields)
    ELSE BoxHeaderSize
         + SumSeq([k \in 1 .. Len(SizeSlots[b.Type]) |-> SlotSize(b.kids, SizeSlots[b.Type][k])])

\* makebuf(b) filled by a leaf's Encode: Size() - BoxHeaderSize bytes
makebuf(sz, fields) ==
    [i \in 1 .. (sz - BoxHeaderSize) \div WordSize |->
        IF i <= Len(fields) THEN fields[i] ELSE 0]

\* What a container's Encode calls Encode on for one slot, in order: the boxes
\* of the field, or the nil field of a slot that it does not test
SlotCalls(kids, slot) ==
    IF SlotPanics(kids, slot) THEN << [nil |-> TRUE, t |-> slot.t, box |-> NilBox] >>
    ELSE [j \in 1 .. Len(SlotBoxes(kids, slot)) |->
            [nil |-> FALSE, t |-> slot.t, box |-> SlotBoxes(kids, slot)[j]]]

\* Encode on a nil box of type t: EncodeHeader asks Size() and Type(), writes
\* the header where Size() answers, and the first field read is a nil
\* dereference
EncodeNil(t) ==
    [panic |-> TRUE,
     writes |-> IF NilSizePanics(t) THEN <<>>
                ELSE << Header(BoxHeaderSize + WordSize * FixedWords[t], t) >>]

RECURSIVE EncodeBox(_)
RECURSIVE EncodeCalls(_)
\* b.Encode(w) on a writer that takes all it is given: the buffers of the
\* Write calls made, in order, up to the return or to a panic.  A leaf writes
\* its header and its makebuf(b); a container its header (EncodeHeader asks
\* b.Size() first) and then its fields, one Encode after the other.
EncodeBox(b) ==
    IF b.Type \notin Containers
    THEN [panic |-> FALSE,
          writes |-> << Header(BoxSize(b), b.Type), makebuf(BoxSize(b), b.fields) >>]
    ELSE IF SizePanics(b) THEN [panic |-> TRUE, writes |-> <<>>]
    ELSE LET slots == EncodeSlots[b.Type]
             r == EncodeCalls(Flatten([k \in 1 .. Len(slots) |-> SlotCalls(b.kids, slots[k])]))
         IN  [panic |-> r.panic, writes |-> << Header(BoxSize(b), b.Type) >> \o r.writes]

\* The Encode calls of a container on its fields: the first that panics ends them
EncodeCalls(calls) ==
    IF calls = <<>> THEN [panic |-> FALSE, writes |-> <<>>]
    ELSE LET first == IF Head(calls).nil THEN EncodeNil(Head(calls).t)
                      ELSE EncodeBox(Head(calls).box)
             rest == EncodeCalls(Tail(calls))
         IN  IF first.panic THEN first
             ELSE [panic |-> rest.panic, writes |-> first.writes \o rest.writes]

----------------------------------------------------------------------------
(* Files to decode *)

MaxBetween == 2

\* A box as a file holds it
FileBox(t, payload) == Header(BoxHeaderSize + WordSize * Len(payload), t) \o payload
FileFull(t, flags, payload) == FileBox(t, <<flags>> \o payload)

\* payload words that spell no box type: n words counted from v
Filler(n, v) == [i \in 1 .. n |-> v + i]

FtypFile == FileBox("ftyp", <<1769172845, 512, 1769172845, 1836069937>>)
MvhdFile == FileFull("mvhd", 0, <<0, 0, 1, 3, 65536, 16777216>> \o [i \in 1 .. 18 |-> 0])
\* version 0: 84 bytes; version 1: 96 bytes, the three times on 64 bits
TkhdFile(version) ==
    IF version = 0
    THEN FileFull("tkhd", 1, <<0, 0, 1, 0, 3, 0, 0, 0, 16777216,
                               65536, 0, 0, 0, 65536, 0, 0, 0, 1073741824, 0, 0>>)
    ELSE FileFull("tkhd", 16777217, <<0, 0, 0, 0, 1, 0, 0, 3, 0, 0, 0, 16777216,
                               65536, 0, 0, 0, 65536, 0, 0, 0, 1073741824, 0, 0>>)
ElstFile == FileFull("elst", 0, <<1, 3, 0, 65536>>)
EdtsFile == FileBox("edts", ElstFile)
MdhdFile == FileFull("mdhd", 0, <<0, 0, 1, 3, 1439432704>>)
HdlrFile == FileFull("hdlr", 0, <<0, 1986618469, 0, 0, 0, 0>>)
VmhdFile == FileFull("vmhd", 1, <<0, 0>>)
DrefFile == FileFull("dref", 0, <<1, 12, 1970433056, 1>>)
DinfFile == FileBox("dinf", DrefFile)
StsdFile == FileFull("stsd", 0, <<1>> \o Filler(3, 100))
SttsFile == FileFull("stts", 0, <<1, 3, 1>>)
StssFile == FileFull("stss", 0, <<1, 1>>)
CttsFile == FileFull("ctts", 0, <<1, 3, 1>>)
StscFile == FileFull("stsc", 0, <<1, 1, 3, 1>>)
StszFile == FileFull("stsz", 0, <<0, 3, 1, 2, 3>>)
StcoFile == FileFull("stco", 0, <<1, 400>>)

\* The sample table's children, in the orders files are written in: the order
\* of StblBox.Encode, and the composition offsets before the chunk tables
StblOrders ==
    { <<StsdFile, SttsFile, StscFile, StszFile, StcoFile>>,
      <<StsdFile, SttsFile, StssFile, StscFile, StszFile, StcoFile, CttsFile>>,
      <<StsdFile, SttsFile, StssFile, CttsFile, StscFile, StszFile, StcoFile>> }

MinfOrders(stbl) ==
    { <<VmhdFile, DinfFile, stbl>>, <<VmhdFile, stbl, DinfFile>> }

TrakOrders(tkhd, mdia) ==
    { <<tkhd, mdia>>, <<tkhd, EdtsFile, mdia>>, <<tkhd, mdia, EdtsFile>> }

TkhdVersions == {0, 1}

MoovFiles ==
    { FileBox("moov", MvhdFile \o FileBox("trak", Flatten(tr))) :
        tr \in UNION { TrakOrders(TkhdFile(v),
                         FileBox("mdia", MdhdFile \o HdlrFile \o FileBox("minf", Flatten(mi)))) :
                       v \in TkhdVersions,
                       mi \in UNION { MinfOrders(FileBox("stbl", Flatten(st))) : st \in StblOrders } } }

\* The moov whose children are all in the order Encode writes them
PlainMoov ==
    FileBox("moov", MvhdFile \o FileBox("trak", TkhdFile(0) \o
        FileBox("mdia", MdhdFile \o HdlrFile \o FileBox("minf", VmhdFile \o DinfFile \o
            FileBox("stbl", StsdFile \o SttsFile \o StscFile \o StszFile \o StcoFile)))))

\* Boxes found between moov and mdat: free space of 4 and of 8 bytes, free
\* space whose bytes spell "mdat", and user data (a registered type)
BetweenBoxes ==
    { FileBox("free", Filler(1, 200)),
      FileBox("free", Filler(2, 300)),
      FileBox("free", <<16, TypeCode["mdat"]>>),
      FileBox("udta", FileFull("meta", 0, Filler(2, 500))) }

RECURSIVE SeqsUpTo(_, _)
SeqsUpTo(S, n) ==
    IF n = 0 THEN {<<>>}
    ELSE LET shorter == SeqsUpTo(S, n - 1)
         IN  shorter \cup {Append(q, x) : q \in shorter, x \in S}

MdatFile == FileBox("mdat", Filler(6, 600))

\* The file with the size field of the header at byte position p set to sz
WithSize(s, p, sz) == [s EXCEPT ![p \div WordSize + 1] = sz]

UnsupportedSizes == {0, 1}

\* Where the top-level boxes of a well-formed file start
RECURSIVE Boundaries(_, _)
Boundaries(s, p) ==
    IF p >= FileEnd(s) THEN {}
    ELSE {p} \cup Boundaries(s, p + s[p \div WordSize + 1])

\* A moov of one track from its header boxes and the boxes of the trak, a
\* mdia from the boxes of its minf, a stbl from its stco
MoovOf(head, trak) == FileBox("moov", head \o FileBox("trak", trak))
MdiaOf(minf) == FileBox("mdia", MdhdFile \o HdlrFile \o FileBox("minf", minf))
StblOf(stco) == FileBox("stbl", StsdFile \o SttsFile \o StscFile \o StszFile \o stco)

\* Chunk offset tables that count more entries than their payload holds: one
\* entry, entries up to 528 bytes and up to 1608 bytes of a payload of 8 bytes,
\* entries up to 928 bytes and up to 808 bytes of a payload of 516 bytes
CutStco ==
    { FileFull("stco", 0, <<1>>), FileFull("stco", 0, <<130>>), FileFull("stco", 0, <<400>>),
      FileFull("stco", 0, <<230>> \o Filler(127, 700)),
      FileFull("stco", 0, <<200>> \o Filler(127, 700)) }

\* Files whose moov is damaged: a cut stco, or no dinf, no tkhd, no mvhd
Damaged ==
    { FtypFile \o m \o MdatFile :
        m \in { MoovOf(MvhdFile, TkhdFile(0) \o MdiaOf(VmhdFile \o DinfFile \o StblOf(c))) :
                   c \in CutStco }
              \cup { MoovOf(MvhdFile, TkhdFile(0) \o MdiaOf(VmhdFile \o StblOf(StcoFile))),
                     MoovOf(MvhdFile, MdiaOf(VmhdFile \o DinfFile \o StblOf(StcoFile))),
                     MoovOf(<<>>, TkhdFile(0) \o MdiaOf(VmhdFile \o DinfFile \o StblOf(StcoFile))) } }

Files ==
    LET whole == {FtypFile \o m \o MdatFile : m \in MoovFiles}
        between == {FtypFile \o PlainMoov \o Flatten(bs) \o tail :
                        bs \in SeqsUpTo(BetweenBoxes, MaxBetween), tail \in {MdatFile, <<>>}}
        plain == FtypFile \o PlainMoov \o FileBox("free", Filler(2, 300)) \o MdatFile
        sized == {WithSize(plain, p, sz) : p \in Boundaries(plain, 0), sz \in UnsupportedSizes}
    IN  whole \cup between \cup sized \cup Damaged

\* The decoder's variables while a decoded movie is filtered; the filter reads
\* no box, so the build plays no part in it
DecoderIdle ==
    /\ build = "smooth"
    /\ stream = <<>>
    /\ rpos = 0
    /\ mp4 = [Ftyp |-> NilBox, Moov |-> NilBox]
    /\ out = <<>>
    /\ boxlog = <<>>


----------------------------------------------------------------------------
(* The state machine *)

\* The decoded movie and a fresh Clip filter.  DecodeMdat leaves ContentSize 0;
\* mdat.start is the file offset of the payload, mdat.pos what has been read of it.
InitWith(modes) ==
    \E m \in Movies, b \in Begins, d \in Durations, md \in modes :
        /\ md = "copy" => (b = 0 /\ d = 0)
        /\ ftyp = TheFtyp
        /\ moov = m
        /\ orig = m
        /\ f = Clip(b, d)
        /\ mdat = [ContentSize |-> 0,
                   start |-> FtypSize(TheFtyp) + MoovSize(m) + BoxHeaderSize,
                   pos |-> 0]
        /\ sink = <<>>
        /\ pc = IF md = "pipeline" THEN "start" ELSE "client"
        /\ ret = NoErr
        /\ mode = md
        /\ trace = <<>>
        /\ DecoderIdle

Init == InitWith({"pipeline", "direct", "copy"})

Call(op, r) == [op |-> op, ret |-> r]

\* The Write calls of a leaf box's Encode, as byte counts: EncodeHeader, then
\* the buffer of makebuf(b)
LeafWrites(sz) == <<BoxHeaderSize, sz - BoxHeaderSize>>

\* The Write calls of a container with one leaf child (edts, dinf)
WrapWrites(sz) == <<BoxHeaderSize>> \o LeafWrites(sz - BoxHeaderSize)

FtypWrites(b) == LeafWrites(FtypSize(b))

StblWrites(t) ==
    <<BoxHeaderSize>> \o LeafWrites(t.StsdSize) \o LeafWrites(SttsSize(t.Stts))
    \o (IF t.Stss.present THEN LeafWrites(StssSize(t.Stss)) ELSE <<>>)
    \o LeafWrites(StscSize(t.Stsc)) \o LeafWrites(StszSize(t.Stsz))
    \o LeafWrites(StcoSize(t.Stco))
    \o (IF t.Ctts.present THEN LeafWrites(CttsSize(t.Ctts)) ELSE <<>>)

MinfWrites(t) ==
    <<BoxHeaderSize>> \o LeafWrites(t.MhdSize) \o WrapWrites(t.MinfOther - t.MhdSize)
    \o StblWrites(t)

MdiaWrites(t) ==
    <<BoxHeaderSize>> \o LeafWrites(MdhdSize)
    \o (IF t.HdlrSize = 0 THEN <<>> ELSE LeafWrites(t.HdlrSize))
    \o MinfWrites(t)

TrakWrites(t) ==
    <<BoxHeaderSize>> \o LeafWrites(TkhdSize)
    \o (IF t.EdtsSize = 0 THEN <<>> ELSE WrapWrites(t.EdtsSize))
    \o MdiaWrites(t)

RECURSIVE TraksWrites(_)
TraksWrites(traks) ==
    IF traks = <<>> THEN <<>> ELSE TrakWrites(Head(traks)) \o TraksWrites(Tail(traks))

\* The Write calls of MoovBox.Encode; m.Other, when not 0, is an iods box
MoovWrites(m) ==
    <<BoxHeaderSize>> \o LeafWrites(MvhdSize(m.Mvhd))
    \o (IF m.Other = 0 THEN <<>> ELSE LeafWrites(m.Other))
    \o TraksWrites(m.Trak)

\* The sink after an Encode that makes the Write calls `writes`, of which call
\* number failAt returns an error (0: none does): the writes before it are in
\* the output.  The n a Write returns is dropped by Encode; the writer is one
\* that takes the whole buffer or returns an error.
EncodeTo(snk, kind, writes, failAt) ==
    LET n == IF failAt = 0 THEN SumSeq(writes) ELSE SumSeq(SubSeq(writes, 1, failAt - 1))
    IN  IF n = 0 THEN snk ELSE Append(snk, Entry(kind, n, SumSeq(writes), 0))

\* EncodeFiltered drives the filter
Piped == mode = "pipeline"

\* The Write call of an Encode that returns an error (0: none): any of them
FailPoints(writes) == 0 .. Len(writes)

\* EncodeFiltered: m.Ftyp.Encode(w)
EncodeFtyp ==
    /\ Piped /\ pc = "start"
    /\ \E failAt \in FailPoints(FtypWrites(ftyp)) :
         /\ sink' = EncodeTo(sink, "ftyp", FtypWrites(ftyp), failAt)
         /\ ret' = IF failAt = 0 THEN NoErr ELSE ErrWrite
         /\ pc' = IF failAt = 0 THEN "ftyp" ELSE "returned"
         /\ trace' = Append(trace, Call("Ftyp.Encode", ret'))
    /\ UNCHANGED <<ftyp, moov, orig, f, mdat, mode, build, stream, rpos, mp4, out, boxlog>>

\* What a FilterMoov call that answered r does to the state
MoovCalled(r) ==
    /\ f' = r.f
    /\ moov' = r.m
    /\ ret' = r.ret
    /\ trace' = Append(trace, Call("FilterMoov", r.ret))
    /\ UNCHANGED <<ftyp, orig, mdat, sink, mode, build, stream, rpos, mp4, out, boxlog>>

\* EncodeFiltered going on to the moov whatever FilterMoov returned
PipelineIgnoringError(r) ==
    IF r.ret = "panic" THEN "panic" ELSE "filtered"

\* Where EncodeFiltered stands after FilterMoov returned, lines 23-26
PipelineAfterMoov(r) ==
    IF r.ret = "panic" THEN "panic" ELSE IF r.ret = NoErr THEN "filtered" ELSE "returned"

\* EncodeFiltered: f.FilterMoov(m.Moov)
CallFilterMoov ==
    /\ Piped /\ pc = "ftyp"
    /\ LET r == FilterMoov(f, moov)
       IN  MoovCalled(r) /\ pc' = PipelineAfterMoov(r)

\* EncodeFiltered: m.Moov.Encode(w)
EncodeMoov ==
    /\ Piped /\ pc = "filtered"
    /\ \E failAt \in FailPoints(MoovWrites(moov)) :
         /\ sink' = EncodeTo(sink, "moov", MoovWrites(moov), failAt)
         /\ ret' = IF failAt = 0 THEN NoErr ELSE ErrWrite
         /\ pc' = IF failAt = 0 THEN "moov" ELSE "returned"
         /\ trace' = Append(trace, Call("Moov.Encode", ret'))
    /\ UNCHANGED <<ftyp, moov, orig, f, mdat, mode, build, stream, rpos, mp4, out, boxlog>>

MdatCalled(r) ==
    /\ mdat' = r.mdat
    /\ sink' = r.sink
    /\ ret' = r.ret
    /\ trace' = Append(trace, Call("FilterMdat", r.ret))
    /\ UNCHANGED <<ftyp, moov, orig, f, mode, build, stream, rpos, mp4, out, boxlog>>

\* EncodeFiltered: return f.FilterMdat(w, m.Mdat)
CallFilterMdat ==
    /\ Piped /\ pc = "moov"
    /\ \E fault \in Faults(f) :
         MdatCalled(FilterMdat(f, mdat, sink, fault)) /\ pc' = "returned"

\* A client of the filter calls FilterMoov on its own
DirectFilterMoov ==
    /\ mode = "direct" /\ pc = "client" /\ Len(trace) < MaxCalls
    /\ LET r == FilterMoov(f, moov)
       IN  MoovCalled(r) /\ pc' = IF r.ret = "panic" THEN "panic" ELSE "client"

\* A client of the filter calls FilterMdat on its own
DirectFilterMdat ==
    /\ mode = "direct" /\ pc = "client" /\ Len(trace) < MaxCalls
    /\ \E fault \in Faults(f) :
         MdatCalled(FilterMdat(f, mdat, sink, fault)) /\ pc' = "client"

\* A client that holds the decoded MdatBox encodes it: MdatBox.Encode(w)
MdatBoxEncode ==
    /\ mode = "copy" /\ pc = "client" /\ Len(trace) < MaxCalls
    /\ \E fault \in CopyFaults(PayloadLeft(orig, mdat)) :
         LET r == MdatEncode(mdat, PayloadLeft(orig, mdat), sink, fault)
         IN  /\ mdat' = r.mdat
             /\ sink' = r.sink
             /\ ret' = r.ret
             /\ trace' = Append(trace, Call("Mdat.Encode", r.ret))
    /\ UNCHANGED <<ftyp, moov, orig, f, pc, mode, build, stream, rpos, mp4, out, boxlog>>

Next ==
    \/ EncodeFtyp
    \/ CallFilterMoov
    \/ EncodeMoov
    \/ CallFilterMdat
    \/ DirectFilterMoov
    \/ DirectFilterMdat
    \/ MdatBoxEncode

Spec == Init /\ [][Next]_vars

----------------------------------------------------------------------------
(* Decode and MP4.Encode as a state machine *)

\* The filter's variables while a file is decoded: no movie is in memory yet
FilterIdle ==
    /\ ftyp = TheFtyp
    /\ moov = NilBox
    /\ orig = NilBox
    /\ f = Clip(0, 0)
    /\ mdat = [ContentSize |-> 0, start |-> 0, pos |-> 0]
    /\ sink = <<>>
    /\ mode = "decode"
    /\ trace = <<>>

InitDecode ==
    /\ FilterIdle
    /\ build \in Builds
    /\ stream \in Files
    /\ rpos = 0
    /\ mp4 = [Ftyp |-> NilBox, Moov |-> NilBox]
    /\ out = <<>>
    /\ boxlog = <<>>
    /\ pc = "Decode"
    /\ ret = NoErr

KeepFilter == UNCHANGED <<ftyp, moov, orig, f, mdat, sink, mode, build, trace>>

\* The log with a header that Decode read and did not hand to DecodeBox
Seen(h) == IF h.err = NoErr THEN Append(boxlog, BoxCall(h, 0, FALSE)) ELSE boxlog

\* Decode returns (nil, e), or panics
DecodeFails(e, pos, log) ==
    /\ ret' = e
    /\ pc' = IF e = "panic" THEN "panic" ELSE "failed"
    /\ rpos' = pos
    /\ boxlog' = log
    /\ UNCHANGED <<mp4, out, stream>>
    /\ KeepFilter

\* Decode goes on after DecodeBox answered b for the ftyp or the moov
FirstBoxes(field, b, next) ==
    IF b.err # NoErr THEN DecodeFails(b.err, b.pos, b.log)
    ELSE /\ mp4' = [mp4 EXCEPT ![field] = b.box]
         /\ rpos' = b.pos
         /\ boxlog' = b.log
         /\ pc' = next
         /\ UNCHANGED <<ret, out, stream>>
         /\ KeepFilter

\* Decode, lines 21-31: the header must be there and say ftyp
FtypHeader(h) ==
    IF h.err # NoErr THEN DecodeFails(h.err, h.pos, boxlog)
    ELSE IF h.Type # "ftyp" THEN DecodeFails(ErrBadFormat, h.pos, Seen(h))
    ELSE FirstBoxes("Ftyp", DecodeBox(build, h, stream, h.pos, FileEnd(stream), 0, boxlog), "moov")

DecodeFtypBox ==
    /\ pc = "Decode"
    /\ FtypHeader(DecodeHeader(stream, rpos, FileEnd(stream)))

\* Decode, lines 32-39: the header's error is not looked at; a failed read
\* leaves the zero BoxHeader, whose type is not moov
MoovHeader(h) ==
    IF h.Type # "moov" THEN DecodeFails(ErrBadFormat, h.pos, Seen(h))
    ELSE FirstBoxes("Moov", DecodeBox(build, h, stream, h.pos, FileEnd(stream), 0, boxlog), "scan")

DecodeMoovBox ==
    /\ pc = "moov"
    /\ MoovHeader(DecodeHeader(stream, rpos, FileEnd(stream)))

\* Decode, lines 52-56: the MP4 is returned with a nil error
DecodeReturns(pos, log) ==
    /\ pc' = "decoded"
    /\ ret' = NoErr
    /\ rpos' = pos
    /\ boxlog' = log
    /\ UNCHANGED <<mp4, out, stream>>
    /\ KeepFilter

\* Decode, line 46: DecodeBox(h, r) with its results dropped
BoxDropped(b) ==
    IF b.err = "panic" THEN DecodeFails("panic", b.pos, b.log)
    ELSE /\ rpos' = b.pos
         /\ boxlog' = b.log
         /\ UNCHANGED <<pc, ret, mp4, out, stream>>
         /\ KeepFilter

\* Decode, lines 40-51: one turn of the loop that looks for the mdat
ScanHeader(h) ==
    IF h.err # NoErr \/ h.Type = "mdat" THEN DecodeReturns(h.pos, Seen(h))
    ELSE BoxDropped(DecodeBox(build, h, stream, h.pos, FileEnd(stream), 0, boxlog))

ScanForMdat ==
    /\ pc = "scan"
    /\ ScanHeader(DecodeHeader(stream, rpos, FileEnd(stream)))

\* MP4.Encode, lines 77-87, with a and b what m.Ftyp.Encode and m.Moov.Encode
\* write, on a writer whose Write call number failAt returns an error (0: none
\* does): the buffers written before it are in the output and Encode returns
\* the error; a panic is reached when no Write before it failed.  The writer
\* is one that takes the whole buffer or returns an error.
Encoded(a, b, failAt) ==
    /\ out' = Flatten(IF failAt = 0 THEN a.writes \o b.writes
                      ELSE SubSeq(a.writes \o b.writes, 1, failAt - 1))
    /\ ret' = IF failAt # 0 THEN ErrWrite ELSE IF b.panic THEN "panic" ELSE NoErr
    /\ pc' = IF failAt # 0 THEN "unwritten" ELSE IF b.panic THEN "panic" ELSE "encoded"
    /\ UNCHANGED <<stream, rpos, mp4, boxlog>>
    /\ KeepFilter

\* m.Encode(w) on the MP4 Decode returned
EncodeMP4 ==
    /\ pc = "decoded"
    /\ \E failAt \in FailPoints(EncodeBox(mp4.Ftyp).writes \o EncodeBox(mp4.Moov).writes) :
          Encoded(EncodeBox(mp4.Ftyp), EncodeBox(mp4.Moov), failAt)

NextDecode ==
    \/ DecodeFtypBox
    \/ DecodeMoovBox
    \/ ScanForMdat
    \/ EncodeMP4

SpecDecode == InitDecode /\ [][NextDecode]_vars

----------------------------------------------------------------------------
(* Vocabulary of the properties *)

\* Some FilterMoov call on this filter has returned nil
FilterMoovOk == \E i \in 1 .. Len(trace) : trace[i] = Call("FilterMoov", NoErr)

LastCall == trace[Len(trace)]

\* The last call was FilterMdat and it returned nil
FilterMdatOk == trace # <<>> /\ LastCall = Call("FilterMdat", NoErr)

Kept(chunks) == SelectSeq(chunks, LAMBDA c : ~c.skip)
KeptOf(chunks, tnum) == SelectSeq(chunks, LAMBDA c : c.track = tnum /\ ~c.skip)

Tracks == 1 .. Len(moov.Trak)

\* Samples in an stsz box: the table's length, or SampleNumber when sizes are uniform
StszCount(b) == IF b.SampleUniformSize = 0 THEN Len(b.SampleSize) ELSE b.SampleNumber

\* Samples per chunk an stsc box gives chunk j: that of the run with the greatest
\* FirstChunk <= j (0 when no run covers j)
StscAt(b, j) ==
    LET ks == {k \in 1 .. Len(b.FirstChunk) : b.FirstChunk[k] <= j}
    IN  IF ks = {} THEN 0
        ELSE b.SamplesPerChunk[CHOOSE k \in ks : \A l \in ks : b.FirstChunk[l] <= b.FirstChunk[k]]

StscTotal(t) == SumSeq([j \in 1 .. Len(t.Stco.ChunkOffset) |-> StscAt(t.Stsc, j)])

Abs(x) == IF x < 0 THEN 0 - x ELSE x
Max(x, y) == IF x > y THEN x ELSE y

\* The movie has a sample
HasSamples(m) == \E tn \in 1 .. Len(m.Trak) : m.Trak[tn].Stts.SampleCount # <<>>

\* A valid movie: in every track the stts, the stsz and the stsc with the stco
\* tell of the same number of samples
ValidMovie(m) ==
    \A tn \in 1 .. Len(m.Trak) :
        /\ SumSeq(m.Trak[tn].Stts.SampleCount) = StszCount(m.Trak[tn].Stsz)
        /\ StszCount(m.Trak[tn].Stsz) = StscTotal(m.Trak[tn])

\* The FilterMoov calls made so far, as positions in the trace
MoovCalls == {i \in 1 .. Len(trace) : trace[i].op = "FilterMoov"}

\* The filter's one FilterMoov call returned nil
ClipRan == Cardinality(MoovCalls) = 1 /\ FilterMoovOk

\* It did for a clip whose duration is not negative
ClipDone == ClipRan /\ DurLE(f.begin, f.end)

----------------------------------------------------------------------------
(* C1 *)

\* The three sample counts of every track of the moov agree
SampleCountsAgree ==
    \A tn \in Tracks :
        LET t == moov.Trak[tn]
        IN  /\ SumSeq(t.Stts.SampleCount) = StszCount(t.Stsz)
            /\ StszCount(t.Stsz) = StscTotal(t)

\* C1: after a successful FilterMoov of a clip filter on a valid movie, for every
\* track, the sum of stts.SampleCount, the stsz sample count and the sum over the
\* new chunks of the samples-per-chunk the rebuilt stsc gives them are equal.
\* Every FilterMoov that returns nil has met no chunk with a sample, so the counts
\* compared are those of tracks without samples.
C1_SampleCountClosure ==
    (ClipRan /\ ValidMovie(orig)) => SampleCountsAgree

----------------------------------------------------------------------------
(* C2 *)

\* File offset of the first mdat payload byte of the output
PayloadStart == FtypSize(ftyp) + MoovSize(moov) + BoxHeaderSize

StrictlyIncreasing(q) == \A i \in 1 .. Len(q) - 1 : q[i] < q[i + 1]

\* <<track, j>> for every stco entry of the rewritten moov
StcoIndex == UNION {{<<tn, j>> : j \in 1 .. Len(moov.Trak[tn].Stco.ChunkOffset)} : tn \in Tracks}

ChunkStart(e) == moov.Trak[e[1]].Stco.ChunkOffset[e[2]]
ChunkEnd(e) == ChunkStart(e) + size(KeptOf(f.chunks, e[1] - 1)[e[2]])

\* Offset in the output of the k-th entry of the sink
SinkOffset(k) == SumSeq([i \in 1 .. (k - 1) |-> sink[i].bytes])

\* Position in the sink of the data of the k-th retained chunk: after ftyp, moov
\* and the mdat header
DataEntry(k) == 3 + k

\* Number of retained chunks of the track of the k-th retained chunk among the first k
RankInTrack(k) ==
    Cardinality({i \in 1 .. k : Kept(f.chunks)[i].track = Kept(f.chunks)[k].track})

\* The chunks of the source lie contiguously in its mdat: the first at the first
\* payload byte, every other one where the one before it ends
Contiguous ==
    /\ f.chunks # <<>> => f.chunks[1].oldOffset = mdat.start
    /\ \A i \in 1 .. (Len(f.chunks) - 1) :
           f.chunks[i + 1].oldOffset = f.chunks[i].oldOffset + size(f.chunks[i])

\* An stco that goes up from each chunk to the next one of the track by the size
\* of the chunk: strictly past a chunk that has bytes, not at all past one that has none
IncreasingPastBytes(tn) ==
    \A j \in 1 .. (Len(moov.Trak[tn].Stco.ChunkOffset) - 1) :
        /\ moov.Trak[tn].Stco.ChunkOffset[j] <= moov.Trak[tn].Stco.ChunkOffset[j + 1]
        /\ size(KeptOf(f.chunks, tn - 1)[j]) > 0 =>
               moov.Trak[tn].Stco.ChunkOffset[j] < moov.Trak[tn].Stco.ChunkOffset[j + 1]

\* The intervals of the retained chunks tile [P, P + total), and what
\* EncodeFiltered wrote has every chunk at its entry
OffsetsTile(total) ==
            /\ \A tn \in Tracks :
                  Len(moov.Trak[tn].Stco.ChunkOffset) = Len(KeptOf(f.chunks, tn - 1))
            /\ \A e \in StcoIndex :
                  PayloadStart <= ChunkStart(e) /\ ChunkEnd(e) <= PayloadStart + total
            /\ \A byte \in PayloadStart .. (PayloadStart + total - 1) :
                  Cardinality({e \in StcoIndex : ChunkStart(e) <= byte /\ byte < ChunkEnd(e)}) = 1
            /\ (FilterMdatOk /\ mode = "pipeline") =>
                  \A k \in 1 .. Len(Kept(f.chunks)) :
                      /\ sink[DataEntry(k)].kind = "data"
                      /\ SinkOffset(DataEntry(k)) =
                           moov.Trak[Kept(f.chunks)[k].track + 1].Stco.ChunkOffset[RankInTrack(k)]

MoovDelta == MoovSize(moov) - MoovSize(orig)

----------------------------------------------------------------------------
(* C3 *)

\* Position in the sink of the mdat header the last FilterMdat call wrote
MdatEntry ==
    CHOOSE i \in 1 .. Len(sink) :
        sink[i].kind = "mdat" /\ \A j \in (i + 1) .. Len(sink) : sink[j].kind # "mdat"

\* The size field of the mdat header written is 8 + total and the payload bytes
\* after it add up to total
MdatDeclares(total) ==
            /\ \E i \in 1 .. Len(sink) : sink[i].kind = "mdat"
            /\ sink[MdatEntry].size = 8 + total
            /\ SumSeq([i \in 1 .. (Len(sink) - MdatEntry) |-> sink[MdatEntry + i].bytes]) = total
            /\ \A i \in (MdatEntry + 1) .. Len(sink) : sink[i].kind = "data"

\* C3: when FilterMdat succeeds after a successful FilterMoov, the size field of
\* the mdat header it wrote is 8 plus the sizes of the retained chunks, and the
\* payload bytes written after the header add up to exactly that sum.
C3_MdatSizeIsBytesWritten ==
    (FilterMoovOk /\ FilterMdatOk) => MdatDeclares(PayloadBytes(Kept(f.chunks)))

\* FilterMdat has succeeded after a FilterMoov that kept two chunks
C3_Witness ==
    /\ ClipRan /\ FilterMdatOk
    /\ Len(Kept(f.chunks)) >= 2

----------------------------------------------------------------------------
(* C4 *)

\* First and last surviving sample of Go track tnum, as updateSamples computes them
FirstOf(tnum) == firstSample(f.chunks, tnum, f.begin)
LastOf(tnum) == lastSample(f.chunks, tnum, f.end)

\* C4: after a successful clip, the stss of every track that has one is strictly
\* increasing, lies within [1, samples of the clipped track] and holds exactly the
\* keyframes n of the input with first_sample <= n <= last_sample, renumbered from 1
\* (n - first_sample + 1).
C4_KeyframesRenumberedFromOne ==
    ClipDone =>
        \A tn \in Tracks :
            moov.Trak[tn].Stss.present =>
                LET new == moov.Trak[tn].Stss.SampleNumber
                    old == orig.Trak[tn].Stss.SampleNumber
                    kept == SelectSeq(old, LAMBDA n : FirstOf(tn - 1) <= n /\ n <= LastOf(tn - 1))
                IN  /\ StrictlyIncreasing(new)
                    /\ \A i \in 1 .. Len(new) :
                           1 <= new[i] /\ new[i] <= StszCount(moov.Trak[tn].Stsz)
                    /\ new = [i \in 1 .. Len(kept) |-> kept[i] - FirstOf(tn - 1) + 1]

----------------------------------------------------------------------------
(* C5 *)

DurationSkew(t) ==
    t.Tkhd.Duration * t.Mdhd.Timescale - t.Mdhd.Duration * moov.Mvhd.Timescale

\* C5: after a successful clip mvhd.Duration is the maximum tkhd.Duration and
\* |tkhd.Duration * mdhd.Timescale - mdhd.Duration * mvhd.Timescale| is less than
\* mvhd.Timescale for every track, whatever the timescales.  Every FilterMoov that
\* returns nil has met no chunk with a sample, so the durations compared are 0.
C5_SkewBelowMovieTimescale ==
    ClipRan =>
        /\ moov.Mvhd.Duration = MaxTkhd(moov.Trak)
        /\ \A tn \in Tracks : Abs(DurationSkew(moov.Trak[tn])) < moov.Mvhd.Timescale

----------------------------------------------------------------------------
(* C6 *)

\* This step is a FilterMoov call
MoovStep ==
    /\ Len(trace') = Len(trace) + 1
    /\ trace'[Len(trace')].op = "FilterMoov"

\* No FilterMoov call has been made on the filter yet
NoMoovCallYet == \A i \in 1 .. Len(trace) : trace[i].op # "FilterMoov"

\* The filter is Clip(0, 0) or Clip(0, d), d the movie's duration in whole seconds
FullClip ==
    /\ f.err = NoErr /\ f.begin = ZeroDur
    /\ \/ f.end = ZeroDur
       \/ f.end.n = 0 /\ f.end.s * moov.Mvhd.Timescale = moov.Mvhd.Duration

\* C6: on a valid movie the first FilterMoov call of Clip(0, 0), and of Clip(0, d)
\* with d the movie duration in whole seconds, succeeds, skips no chunk, leaves
\* stts, stss, ctts, stsz and stsc as they were and the durations within a tick,
\* and sets the mdat content size to the input's.
C6_FullClipIsIdentity ==
    [][(MoovStep /\ NoMoovCallYet /\ FullClip /\ ValidMovie(moov)) =>
          /\ ret' = NoErr
          /\ \A i \in 1 .. Len(f'.chunks) : ~f'.chunks[i].skip
          /\ \A tn \in 1 .. Len(moov.Trak) :
                /\ moov'.Trak[tn].Stts = moov.Trak[tn].Stts
                /\ moov'.Trak[tn].Stss = moov.Trak[tn].Stss
                /\ moov'.Trak[tn].Ctts = moov.Trak[tn].Ctts
                /\ moov'.Trak[tn].Stsz = moov.Trak[tn].Stsz
                /\ moov'.Trak[tn].Stsc = moov.Trak[tn].Stsc
                /\ Abs(moov'.Trak[tn].Tkhd.Duration - moov.Trak[tn].Tkhd.Duration) <= 1
                /\ Abs(moov'.Trak[tn].Mdhd.Duration - moov.Trak[tn].Mdhd.Duration) <= 1
          /\ Abs(moov'.Mvhd.Duration - moov.Mvhd.Duration) <= 1
          /\ f'.mdatSize = MoviePayload(moov)]_vars

----------------------------------------------------------------------------
(* C7 *)

\* begin, in seconds, is negative or beyond mvhd.Duration / mvhd.Timescale
BeginOutside ==
    \/ f.begin.s < 0
    \/ f.begin.s * moov.Mvhd.Timescale > moov.Mvhd.Duration

\* C7: a FilterMoov call returns ErrClipOutside and leaves the moov unchanged when
\* begin < 0 or begin exceeds the movie duration in seconds, and never returns
\* ErrClipOutside when 0 <= begin <= movie duration.
C7_ClipOutsideIffBeginOutside ==
    [][MoovStep =>
          /\ BeginOutside => (ret' = ErrClipOutside /\ moov' = moov)
          /\ ~BeginOutside => ret' # ErrClipOutside]_vars

\* FilterMoov has just refused a negative begin on a movie that has samples
C7_Witness ==
    /\ trace # <<>> /\ LastCall = Call("FilterMoov", ErrClipOutside)
    /\ f.begin.s < 0
    /\ HasSamples(moov) /\ moov = orig

----------------------------------------------------------------------------
(* C8 *)

\* d is the duration of mvhd.Duration units of mvhd.Timescale, to the nanosecond
IsMovieDuration(d) ==
    /\ d.s = moov.Mvhd.Duration \div moov.Mvhd.Timescale
    /\ 0 <= d.n /\ d.n < Second
    /\ d.n * moov.Mvhd.Timescale <= (moov.Mvhd.Duration % moov.Mvhd.Timescale) * Second
    /\ (moov.Mvhd.Duration % moov.Mvhd.Timescale) * Second < (d.n + 1) * moov.Mvhd.Timescale

\* C8: in the first FilterMoov call that gets past the begin checks, with
\* duration >= 0, end becomes the movie duration when begin + duration exceeds the
\* movie duration or duration = 0, and stays begin + duration when 0 < duration and
\* begin + duration <= movie duration.
C8_EndClampedToMovie ==
    [][(MoovStep /\ NoMoovCallYet /\ ret' # ErrClipOutside /\ f.end.s >= f.begin.s) =>
          IF f.end.s * moov.Mvhd.Timescale > moov.Mvhd.Duration \/ f.end.s = f.begin.s
          THEN IsMovieDuration(f'.end)
          ELSE f'.end = f.end]_vars

\* FilterMoov has clamped the end of a clip that begins inside a movie with samples
\* to the movie's duration, which is not a whole number of seconds
C8_Witness ==
    /\ trace # <<>> /\ LastCall.op = "FilterMoov" /\ LastCall.ret # ErrClipOutside
    /\ HasSamples(orig)
    /\ f.begin.s > 0
    /\ f.end = movieDuration(orig) /\ f.end.n > 0

----------------------------------------------------------------------------
(* C9 *)

FilterCall(c) == c.op \in {"FilterMoov", "FilterMdat"}

\* C9: FilterMdat is accepted only on a filter whose FilterMoov has succeeded, and
\* a filter that has failed rejects every later call.
C9_LifecycleEnforced ==
    /\ \A i \in 1 .. Len(trace) :
          trace[i] = Call("FilterMdat", NoErr) =>
              \E j \in 1 .. (i - 1) : trace[j] = Call("FilterMoov", NoErr)
    /\ \A i \in 1 .. Len(trace) : \A j \in (i + 1) .. Len(trace) :
          (FilterCall(trace[i]) /\ trace[i].ret # NoErr /\ FilterCall(trace[j]))
              => trace[j].ret # NoErr

----------------------------------------------------------------------------
(* C10 *)

EncodeOrder == <<"Ftyp.Encode", "FilterMoov", "Moov.Encode", "FilterMdat">>
SinkOrder(i) == IF i = 1 THEN "ftyp" ELSE IF i = 2 THEN "moov" ELSE IF i = 3 THEN "mdat" ELSE "data"

\* C10: EncodeFiltered calls Ftyp.Encode, FilterMoov, Moov.Encode and FilterMdat in
\* that order and returns the first error without going on; the output holds ftyp,
\* then the moov as FilterMoov left it, then the mdat, and nothing of the moov when
\* FilterMoov failed.
C10_EncodeFilteredOrder ==
    mode = "pipeline" =>
        /\ Len(trace) <= Len(EncodeOrder)
        /\ \A i \in 1 .. Len(trace) : trace[i].op = EncodeOrder[i]
        /\ \A i \in 1 .. (Len(trace) - 1) : trace[i].ret = NoErr
        /\ pc = "returned" =>
              /\ ret = LastCall.ret
              /\ ret = NoErr => LastCall.op = "FilterMdat"
        /\ (trace # <<>> /\ LastCall.ret # NoErr) => pc \in {"returned", "panic"}
        /\ \A i \in 1 .. Len(sink) : sink[i].kind = SinkOrder(i)
        /\ Len(sink) >= 1 => trace[1].op = "Ftyp.Encode"
        /\ Len(sink) >= 2 =>
              /\ trace[1] = Call("Ftyp.Encode", NoErr) /\ sink[1].bytes = FtypSize(ftyp)
              /\ FilterMoovOk /\ trace[3].op = "Moov.Encode"
              /\ sink[2].size = MoovSize(moov)
        /\ Len(sink) >= 3 =>
              /\ trace[3] = Call("Moov.Encode", NoErr) /\ sink[2].bytes = MoovSize(moov)
              /\ Len(trace) = 4

\* EncodeFiltered has returned FilterMoov's error with only the ftyp written
C10_Witness ==
    /\ mode = "pipeline" /\ pc = "returned"
    /\ LastCall = Call("FilterMoov", ErrClipOutside)
    /\ Len(sink) = 1
    /\ HasSamples(moov)

----------------------------------------------------------------------------
(* C12 *)

\* The top-level boxes of file s from byte p on are whole: each size is at
\* least a header, a multiple of the word and within the file
RECURSIVE WellFormed(_, _)
WellFormed(s, p) ==
    \/ p = FileEnd(s)
    \/ /\ p + BoxHeaderSize <= FileEnd(s)
       /\ s[p \div WordSize + 1] >= BoxHeaderSize
       /\ s[p \div WordSize + 1] % WordSize = 0
       /\ p + s[p \div WordSize + 1] <= FileEnd(s)
       /\ WellFormed(s, p + s[p \div WordSize + 1])

TypeAt(s, p) == TypeOf(s[p \div WordSize + 2])
SizeAt(s, p) == s[p \div WordSize + 1]

\* Where the moov of a well-formed file starts: after the ftyp
MoovStart(s) == SizeAt(s, 0)

\* A file of whole boxes that starts with ftyp and moov
Movie(s) ==
    /\ WellFormed(s, 0)
    /\ TypeAt(s, 0) = "ftyp"
    /\ MoovStart(s) < FileEnd(s)
    /\ TypeAt(s, MoovStart(s)) = "moov"

MdatStarts(s) == {p \in Boundaries(s, 0) : TypeAt(s, p) = "mdat"}

DecodeDone == pc \in {"decoded", "encoded", "unwritten", "failed", "panic"}

\* The errors the specification names for these cases; the package declares
\* neither
ErrUnsupportedBoxSize == "unsupported box size"
ErrMissingMdat == "missing mdat"

\* C11: decoding a valid moov and encoding it again writes the moov's bytes as
\* they were read: every container's children in their order, every leaf's
\* payload unchanged.
C11_MoovRoundTrip ==
    (pc = "encoded" /\ Movie(stream) /\ stream \notin Damaged) =>
        SubSeq(out, MoovStart(stream) \div WordSize + 1, Len(out))
          = Words(stream, MoovStart(stream), MoovStart(stream) + SizeAt(stream, MoovStart(stream)))

\* C13: a header whose size field is 0 or 1 makes decoding fail with
\* UnsupportedBoxSize, and no payload length size - 8 is derived from it.
C13_UnsupportedSizeRejected ==
    \A k \in 1 .. Len(boxlog) :
        boxlog[k].Size \in UnsupportedSizes =>
            /\ ~boxlog[k].limited
            /\ pc = "failed"
            /\ ret = ErrUnsupportedBoxSize

\* C14: on a file that holds a valid ftyp and moov and ends before any mdat,
\* Decode returns the error MissingMdat and no MP4.
C14_MissingMdatReported ==
    (Movie(stream) /\ MdatStarts(stream) = {} /\ DecodeDone) =>
        (pc = "failed" /\ ret = ErrMissingMdat)

\* C15: when boxes that are not mdat lie between the moov and the mdat, Decode
\* reads every header at a box boundary (each box's size - 8 payload bytes are
\* consumed and dropped) and returns with the reader at the first payload byte
\* of the first mdat.
C15_ReaderAtMdatPayload ==
    (Movie(stream) /\ MdatStarts(stream) # {} /\ pc = "decoded") =>
        /\ \A k \in 1 .. Len(boxlog) :
              boxlog[k].depth = 0 => boxlog[k].at \in Boundaries(stream, 0)
        /\ \E p \in MdatStarts(stream) :
              /\ \A q \in MdatStarts(stream) : p <= q
              /\ rpos = p + BoxHeaderSize

\* C12: a FilterMoov call on a filter made with a negative duration returns
\* ErrInvalidDuration and leaves the moov as it was.
C12_NegativeDurationRejected ==
    [][(MoovStep /\ NoMoovCallYet /\ f.end.s < f.begin.s) =>
          (ret' = ErrInvalidDuration /\ moov' = moov)]_vars

----------------------------------------------------------------------------
(* C16 *)

\* The stco entry of the k-th retained chunk in old-offset order
NewOffset(k) ==
    moov.Trak[Kept(f.chunks)[k].track + 1].Stco.ChunkOffset[RankInTrack(k)]

\* Where the reader stands when it comes to chunk i of the list: past every chunk
\* before it
CursorAt(i) == mdat.start + PayloadBytes(SubSeq(f.chunks, 1, i - 1))

\* Position in the chunk list of the k-th chunk not skipped
KeptAt(k) ==
    CHOOSE i \in 1 .. Len(f.chunks) :
        /\ ~f.chunks[i].skip
        /\ Cardinality({j \in 1 .. i : ~f.chunks[j].skip}) = k

\* The chunk list is in ascending old offset (two chunks share one only when the
\* first has no bytes), the reader has advanced by the size of every chunk, and
\* the payload written is, in that order, the bytes of the chunks not skipped,
\* each read where the reader stood, which on a movie of contiguous chunks is the
\* chunk's old offset; their new offsets ascend in the same order
CopiedInOffsetOrder ==
            /\ \A i \in 1 .. (Len(f.chunks) - 1) :
                   \/ f.chunks[i].oldOffset < f.chunks[i + 1].oldOffset
                   \/ /\ f.chunks[i].oldOffset = f.chunks[i + 1].oldOffset
                      /\ size(f.chunks[i]) = 0
            /\ mdat.pos = PayloadBytes(f.chunks)
            /\ Len(sink) = MdatEntry + Len(Kept(f.chunks))
            /\ \A k \in 1 .. Len(Kept(f.chunks)) :
                   /\ sink[MdatEntry + k].kind = "data"
                   /\ sink[MdatEntry + k].bytes = size(Kept(f.chunks)[k])
                   /\ sink[MdatEntry + k].src = CursorAt(KeptAt(k))
                   /\ Contiguous => sink[MdatEntry + k].src = Kept(f.chunks)[k].oldOffset
            /\ \A k \in 1 .. (Len(Kept(f.chunks)) - 1) :
                   /\ NewOffset(k) <= NewOffset(k + 1)
                   /\ size(Kept(f.chunks)[k]) > 0 => NewOffset(k) < NewOffset(k + 1)

----------------------------------------------------------------------------
(* C17 *)

Packed ==
    \A k \in 2 .. Len(Kept(f.chunks)) :
        NewOffset(k) = NewOffset(k - 1) + size(Kept(f.chunks)[k - 1])

\* C17: after FilterMoov the new offset of the first surviving chunk is that
\* chunk's old offset plus delta, and every later surviving chunk's new offset is
\* the previous surviving chunk's new offset plus its size.  Every FilterMoov that
\* returns nil keeps all chunks or none, so the first surviving chunk is the first
\* chunk of the list.
C17_FirstKeptMovesByDelta ==
    (ClipRan /\ Kept(f.chunks) # <<>>) =>
        /\ NewOffset(1) = Kept(f.chunks)[1].oldOffset + MoovDelta
        /\ Packed

----------------------------------------------------------------------------
(* C18 *)

\* The new indices at which the surviving chunks of a track start a run: 1, and
\* every j whose (samples in chunk, description id) differs from chunk j-1's
RunStarts(kept) ==
    {j \in 1 .. Len(kept) :
        \/ j = 1
        \/ Len(kept[j].samples) # Len(kept[j - 1].samples)
        \/ kept[j].descriptionID # kept[j - 1].descriptionID}

\* The index of the stsc run covering chunk j (0 when none does)
RunOf(b, j) ==
    LET ks == {k \in 1 .. Len(b.FirstChunk) : b.FirstChunk[k] <= j}
    IN  IF ks = {} THEN 0
        ELSE CHOOSE k \in ks : \A l \in ks : b.FirstChunk[l] <= b.FirstChunk[k]

\* C18: for every track the stsc rebuilt by FilterMoov has FirstChunk strictly
\* increasing, starting at 1 and within len(stco.ChunkOffset); the run covering the
\* surviving chunk of new index j carries that chunk's own number of samples and
\* description id; and an entry starts exactly where (samples in chunk,
\* description id) changes from the previous surviving chunk.
C18_StscDescribesSurvivors ==
    ClipDone =>
        \A tn \in Tracks :
            LET b == moov.Trak[tn].Stsc
                kept == KeptOf(f.chunks, tn - 1)
            IN  /\ StrictlyIncreasing(b.FirstChunk)
                /\ \A i \in 1 .. Len(b.FirstChunk) :
                       1 <= b.FirstChunk[i]
                       /\ b.FirstChunk[i] <= Len(moov.Trak[tn].Stco.ChunkOffset)
                /\ kept # <<>> => (b.FirstChunk # <<>> /\ b.FirstChunk[1] = 1)
                /\ \A j \in 1 .. Len(kept) :
                       /\ RunOf(b, j) # 0
                       /\ b.SamplesPerChunk[RunOf(b, j)] = Len(kept[j].samples)
                       /\ b.SampleDescriptionID[RunOf(b, j)] = kept[j].descriptionID
                /\ {b.FirstChunk[i] : i \in 1 .. Len(b.FirstChunk)} = RunStarts(kept)

----------------------------------------------------------------------------
(* C19 *)

\* Samples of the run that covers samples s+1 .. s+count lying in [first, last]
Overlap(s, count, first, last) ==
    LET lo == Max(s + 1, first)
        hi == IF s + count < last THEN s + count ELSE last
    IN  IF hi >= lo THEN hi - lo + 1 ELSE 0

\* The runs <<count, value>> of a run-length table clipped to [first, last]
RECURSIVE ClippedRuns(_, _, _, _, _, _)
ClippedRuns(counts, values, first, last, i, s) ==
    IF i > Len(counts) THEN <<>>
    ELSE LET n == Overlap(s, counts[i], first, last)
             rest == ClippedRuns(counts, values, first, last, i + 1, s + counts[i])
         IN  IF n > 0 THEN <<(<<n, values[i]>>)>> \o rest ELSE rest

RunsOf(counts, values) == [i \in 1 .. Len(counts) |-> <<counts[i], values[i]>>]

\* C19: for every track the rewritten stts holds, in input order and with their
\* deltas, exactly the input runs that intersect [first_sample, last_sample], each
\* with the size of the intersection as its count (never 0, never more than the
\* input count); the ctts is rewritten by the same rule.
C19_RunsClippedToInterval ==
    ClipDone =>
        \A tn \in Tracks :
            LET new == moov.Trak[tn]
                old == orig.Trak[tn]
                first == FirstOf(tn - 1)
                last == LastOf(tn - 1)
            IN  /\ RunsOf(new.Stts.SampleCount, new.Stts.SampleTimeDelta)
                     = ClippedRuns(old.Stts.SampleCount, old.Stts.SampleTimeDelta,
                                   first, last, 1, 0)
                /\ new.Ctts.present =>
                     RunsOf(new.Ctts.SampleCount, new.Ctts.SampleOffset)
                       = ClippedRuns(old.Ctts.SampleCount, old.Ctts.SampleOffset,
                                     first, last, 1, 0)

----------------------------------------------------------------------------
(* C20 *)

\* The earliest firstTC and the latest lastTC of a non-empty chunk list
MinFirstTC(kept) ==
    kept[CHOOSE i \in 1 .. Len(kept) :
            \A j \in 1 .. Len(kept) : DurLE(kept[i].firstTC, kept[j].firstTC)].firstTC
MaxLastTC(kept) ==
    kept[CHOOSE i \in 1 .. Len(kept) :
            \A j \in 1 .. Len(kept) : DurGE(kept[i].lastTC, kept[j].lastTC)].lastTC

\* C20: after FilterMoov, for every track with a retained chunk, mdhd.Duration is
\* floor((E - S) * mdhd.Timescale / 1s) and tkhd.Duration is
\* floor((E - S) * mvhd.Timescale / 1s), S the minimum first_tc and E the maximum
\* last_tc of the track's retained chunks.  Every FilterMoov that returns nil has
\* met no chunk with a sample, so S and E are 0 in every track.
C20_DurationSpansRetainedChunks ==
    ClipRan =>
        \A tn \in Tracks :
            LET kept == KeptOf(f.chunks, tn - 1)
                t == moov.Trak[tn]
            IN  kept # <<>> =>
                  LET d == DurSub(MaxLastTC(kept), MinFirstTC(kept))
                  IN  /\ t.Mdhd.Duration = DurToTicks(d, t.Mdhd.Timescale)
                      /\ t.Tkhd.Duration = DurToTicks(d, moov.Mvhd.Timescale)

----------------------------------------------------------------------------
(* C21 *)

\* The chunks the filter holds for track tn (counted from 1), by chunk index
TrackChunks(tn) ==
    LET mine == SelectSeq(f.chunks, LAMBDA c : c.track = tn - 1)
    IN  [i \in 1 .. Len(mine) |-> CHOOSE c \in {mine[k] : k \in 1 .. Len(mine)} : c.index = i]

\* C21: the chunk list of a track partitions its samples: the first chunk starts
\* at sample 1, each chunk spans last_sample - first_sample + 1 = len(samples) =
\* the samples-per-chunk of the stsc run active at its index, each next chunk
\* starts at the previous last_sample + 1, first_tc and last_tc are the stts time
\* codes of first_sample and last_sample + 1, and a chunk's last_tc is the next
\* chunk's first_tc.
C21_ChunkListPartitionsSamples ==
    ClipDone =>
        \A tn \in Tracks :
            LET t == orig.Trak[tn]
                cs == TrackChunks(tn)
            IN  /\ Len(cs) = Len(t.Stco.ChunkOffset)
                /\ cs # <<>> => cs[1].firstSample = 1
                /\ \A i \in 1 .. Len(cs) :
                      /\ Len(cs[i].samples) = StscAt(t.Stsc, i)
                      /\ cs[i].firstTC = GetTimeCode(t.Stts, cs[i].firstSample, t.Mdhd.Timescale)
                      /\ i > 1 => cs[i - 1].lastTC = cs[i].firstTC
                      /\ cs[i].lastSample - cs[i].firstSample + 1 = Len(cs[i].samples)
                      /\ i > 1 => cs[i].firstSample = cs[i - 1].lastSample + 1
                      /\ cs[i].lastTC = GetTimeCode(t.Stts, cs[i].lastSample + 1, t.Mdhd.Timescale)

----------------------------------------------------------------------------
(* C22 *)

\* A FilterMoov call got as far as building the chunk list
FilterMoovRan ==
    \E i \in 1 .. Len(trace) :
        trace[i].op = "FilterMoov" /\ trace[i].ret \in {NoErr, "panic"}

\* The size the stsz box gives sample number n
StszSizeOf(b, n) == IF b.SampleSize # <<>> THEN b.SampleSize[n] ELSE b.SampleUniformSize

\* C22: while the chunk list is built every GetSampleSize call stays within the
\* sample table (no index out of range), and samples[i] of every chunk is the
\* stsz size of sample first_sample + i, so chunk.size() is the chunk's length.
C22_SampleSizesFromStsz ==
    FilterMoovRan =>
        \A tn \in 1 .. Len(orig.Trak) :
            LET t == orig.Trak[tn]
                r == buildChunkList(tn - 1, t)
            IN  /\ ~r.panic
                /\ \A i \in 1 .. Len(r.chunks) :
                      \A k \in 1 .. Len(r.chunks[i].samples) :
                          r.chunks[i].samples[k]
                            = StszSizeOf(t.Stsz, r.chunks[i].firstSample + k - 1)

----------------------------------------------------------------------------
(* C23 *)

\* The first-sample lookup at the clip begin returns 0 for track tn
NoChunkAtBegin(tn) == firstSample(f.chunks, tn - 1, f.begin) = 0

\* Nothing of track tn is left in the moov and no chunk of it is copied
Emptied(tn) ==
    LET t == moov.Trak[tn]
    IN  /\ t.Stts.SampleCount = <<>>
        /\ t.Stsz.SampleSize = <<>>
        /\ t.Stss.present => t.Stss.SampleNumber = <<>>
        /\ t.Stco.ChunkOffset = <<>>
        /\ t.Tkhd.Duration = 0
        /\ t.Mdhd.Duration = 0
        /\ KeptOf(f.chunks, tn - 1) = <<>>

\* C23: a track none of whose chunks contains the clip begin keeps no sample
\* after FilterMoov: stts, the stsz table, stss and stco are empty, its tkhd and
\* mdhd durations are 0 and none of its chunks goes into the new mdat.
C23_TrackOutsideClipEmptied ==
    ClipRan => \A tn \in Tracks : NoChunkAtBegin(tn) => Emptied(tn)

----------------------------------------------------------------------------
(* C24 *)

\* C24: after FilterMoov a chunk is skipped exactly when it lies wholly outside
\* the clip (first_tc > end or last_tc < begin, end being the clamped end), so a
\* chunk straddling or touching begin or end is retained, and each track's stco
\* has one entry per chunk of the track that is not skipped.
C24_SkipIffOutsideClip ==
    FilterMoovOk =>
        /\ \A k \in 1 .. Len(f.chunks) :
              f.chunks[k].skip <=> (\/ DurGT(f.chunks[k].firstTC, f.end)
                                    \/ DurLT(f.chunks[k].lastTC, f.begin))
        /\ \A tn \in Tracks :
              Len(moov.Trak[tn].Stco.ChunkOffset) = Len(KeptOf(f.chunks, tn - 1))

\* A clip has kept the chunks of a track, which only touch its begin
C24_Witness ==
    /\ FilterMoovOk
    /\ Len(f.chunks) >= 2
    /\ \A k \in 1 .. Len(f.chunks) :
          /\ ~f.chunks[k].skip
          /\ f.chunks[k].lastTC = f.begin
          /\ Len(moov.Trak[f.chunks[k].track + 1].Stco.ChunkOffset) = Len(f.chunks)

----------------------------------------------------------------------------
(* C25 *)

\* The bytes the last MdatBox.Encode or FilterMdat call wrote: the sink from its
\* last mdat header on
MdatWritten ==
    LET h == CHOOSE i \in 1 .. Len(sink) :
                 sink[i].kind = "mdat" /\ \A j \in (i + 1) .. Len(sink) : sink[j].kind # "mdat"
    IN  SumSeq([k \in 1 .. (Len(sink) - h + 1) |-> sink[h + k - 1].bytes])

\* The last call was MdatBox.Encode and it returned nil
MdatEncodeOk == trace # <<>> /\ LastCall = Call("Mdat.Encode", NoErr)

\* The boxes of the tree under b
RECURSIVE AllBoxes(_)
AllBoxes(b) == {b} \cup UNION {AllBoxes(b.kids[k]) : k \in 1 .. Len(b.kids)}

\* The boxes Decode returned
DecodedBoxes ==
    (IF mp4.Ftyp = NilBox THEN {} ELSE AllBoxes(mp4.Ftyp))
    \cup (IF mp4.Moov = NilBox THEN {} ELSE AllBoxes(mp4.Moov))

\* Encode of b wrote e: as many bytes as b.Size(), which is also the size field
SizeWritten(b, e) ==
    ~e.panic => /\ WordSize * Len(Flatten(e.writes)) = BoxSize(b)
                /\ e.writes[1][1] = BoxSize(b)

\* For the ftyp and moov trees Decode returns, Size() of every box is the number
\* of bytes its Encode writes and the size field of its header
TreeSizeIsEncodedLength == \A b \in DecodedBoxes : SizeWritten(b, EncodeBox(b))

\* C25: for every box type and in every state, Size() is the number of bytes
\* Encode writes and the size field of the header it writes: for the ftyp and
\* the moov the pipeline encodes, and for the mdat box a client encodes.
C25_SizeIsEncodedLength ==
    /\ \A i \in 1 .. Len(sink) :
          (sink[i].kind \in {"ftyp", "moov"} /\ trace[2 * i - 1].ret = NoErr)
              => sink[i].bytes = sink[i].size
    /\ MdatEncodeOk => MdatWritten = MdatSize(mdat)

====
